---- MODULE Spec2Model ----
(***************************************************************************)
(* Model of the invoice agent backend:                                     *)
(*   - app/flows/custom_agent.py: the ReAct graph (decide_node,            *)
(*     tools_node, should_continue, build_custom_agent) and the            *)
(*     identifier extractor;                                               *)
(*   - app/services/custom_agent_service.py: CustomAgentService            *)
(*     (initialize, ask_custom, shutdown, thread id derivation).           *)
(* Texts are sequences of one-character strings, so that the regular       *)
(* expressions, str.lower/upper and str.startswith are computed.           *)
(***************************************************************************)
EXTENDS Integers, Sequences, FiniteSets, TLC

\* ------------------------------------------------------------------ bounds
\* Number of calls of the service (ask_custom, shutdown) made over a
\* behaviour.
MaxAsks == 2
\* Total number of tool calls the model may request within one ask.
MaxCalls == 2

\* ------------------------------------------------------------- characters
UpperSeq == << "A","B","C","D","E","F","G","H","I","J","K","L","M",
               "N","O","P","Q","R","S","T","U","V","W","X","Y","Z" >>
LowerSeq == << "a","b","c","d","e","f","g","h","i","j","k","l","m",
               "n","o","p","q","r","s","t","u","v","w","x","y","z" >>
DigitSeq == << "0","1","2","3","4","5","6","7","8","9" >>

Range(f) == { f[i] : i \in DOMAIN f }

UpperSet == Range(UpperSeq)
LowerSet == Range(LowerSeq)
DigitSet == Range(DigitSeq)

IsLetter(c) == c \in UpperSet \/ c \in LowerSet
IsDigit(c) == c \in DigitSet
\* \w of the re module: letters, digits and the underscore.
IsWord(c) == IsLetter(c) \/ IsDigit(c) \/ c = "_"
\* \s of the re module (the texts of the model use the blank only).
IsSpace(c) == c = " "
\* [A-Z0-9-] under re.IGNORECASE
IsIdChar(c) == IsLetter(c) \/ IsDigit(c) \/ c = "-"
\* [A-Z0-9] under re.IGNORECASE
IsAlnum(c) == IsLetter(c) \/ IsDigit(c)

\* str.lower() and str.upper(), character by character.
LowerChar(c) ==
    IF c \in UpperSet
    THEN LowerSeq[CHOOSE i \in DOMAIN UpperSeq : UpperSeq[i] = c]
    ELSE c
UpperChar(c) ==
    IF c \in LowerSet
    THEN UpperSeq[CHOOSE i \in DOMAIN LowerSeq : LowerSeq[i] = c]
    ELSE c
Lower(s) == [i \in DOMAIN s |-> LowerChar(s[i])]
Upper(s) == [i \in DOMAIN s |-> UpperChar(s[i])]

\* A variant of ReplaceHyphen that drops the hyphens.
RemoveHyphen(s) == SelectSeq(s, LAMBDA c : c # "-")

\* str.replace('-', '_')
ReplaceHyphen(s) == [i \in DOMAIN s |-> IF s[i] = "-" THEN "_" ELSE s[i]]

\* str.startswith(prefix)
StartsWith(s, prefix) ==
    /\ Len(s) >= Len(prefix)
    /\ SubSeq(s, 1, Len(prefix)) = prefix

\* The absent text: what a search that finds nothing returns (Python's None;
\* a match of these patterns is never empty).
NoText == << >>

\* ------------------------------------------------------ regular expressions
\* Length of the longest run of characters of the class cls that starts at p.
InClass(cls, c) ==
    CASE cls = "letter" -> IsLetter(c)
      [] cls = "digit" -> IsDigit(c)
      [] cls = "space" -> IsSpace(c)
      [] cls = "idchar" -> IsIdChar(c)
      [] cls = "alnum" -> IsAlnum(c)

RECURSIVE RunLen(_, _, _)
RunLen(s, p, cls) ==
    IF p > Len(s) THEN 0
    ELSE IF ~InClass(cls, s[p]) THEN 0
    ELSE 1 + RunLen(s, p + 1, cls)

\* \b between position p-1 and p, where s[p] is a word character.
WordStartsAt(s, p) == p = 1 \/ ~IsWord(s[p - 1])
\* \b after position e, where s[e] is a word character.
WordEndsAt(s, e) == e = Len(s) \/ ~IsWord(s[e + 1])

\* Numbers of the patterns.
MinLetters == 2
MaxLetters == 4
MinDigits == 6
CufeLen == 32
NitLetters == 2
NitDigits == 9

\* The lengths of two runs: l, that of the run at p, and that of the run of
\* the class cls that starts skip characters after the end of the first.
TwoRuns(s, p, l, skip, cls) == << l, RunLen(s, p + l + skip, cls) >>

\* [A-Z]* at p, then \d* skip characters later.
LettersThenDigits(s, p, skip) ==
    TwoRuns(s, p, RunLen(s, p, "letter"), skip, "digit")

\* \s* at p, then [A-Z0-9-]*.
SpacesThenIdChars(s, p) ==
    TwoRuns(s, p, RunLen(s, p, "space"), 0, "idchar")

\* r'\b([A-Z]{2,4}\d{6,})\b' matched at p, where runs are the lengths of the
\* letters at p and of the digits after them: the end of the match, or 0.
LettersDigitsEnd(s, p, runs) ==
    LET l == runs[1]
        d == runs[2]
        e == p + l + d - 1
    IN  IF /\ WordStartsAt(s, p)
           /\ l >= MinLetters /\ l <= MaxLetters
           /\ d >= MinDigits
           /\ WordEndsAt(s, e)
        THEN e ELSE 0

\* r'\b([A-Z]+-\d+)\b' matched at p, where runs are the lengths of the
\* letters at p and of the digits one character after them: the end of the
\* match, or 0.
LettersHyphenDigitsEnd(s, p, runs) ==
    LET l == runs[1]
        h == p + l
        d == runs[2]
        e == h + d
    IN  IF /\ WordStartsAt(s, p)
           /\ l >= 1
           /\ h <= Len(s) /\ s[h] = "-"
           /\ d >= 1
           /\ WordEndsAt(s, e)
        THEN e ELSE 0

\* r'\b([A-Z]{2}\d{9})\b' matched at p, where runs are the lengths of the
\* letters at p and of the digits after them: the end of the match, or 0.
NitShapeEnd(s, p, runs) ==
    LET l == runs[1]
        d == runs[2]
        e == p + l + d - 1
    IN  IF /\ WordStartsAt(s, p)
           /\ l = NitLetters
           /\ d = NitDigits
           /\ WordEndsAt(s, e)
        THEN e ELSE 0

\* r'\b([A-Z0-9]{32})\b' matched at p, where n is the length of the run of
\* letters and digits at p: the end of the match, or 0.
CufeEnd(s, p, n) ==
    LET e == p + n - 1
    IN  IF /\ n >= 1
           /\ WordStartsAt(s, p)
           /\ n = CufeLen
           /\ WordEndsAt(s, e)
        THEN e ELSE 0

Factura == << "f","a","c","t","u","r","a" >>

\* r'\bfactura\s+([A-Z0-9-]+)' matched at p, where runs are the lengths of
\* the spaces after the word and of the identifier characters after them:
\* <<start, end>> of group 1, or <<0, 0>>.
FacturaGroup(s, p, runs) ==
    LET k == Len(Factura)
        w == runs[1]
        g == p + k + w
        c == runs[2]
    IN  IF /\ p + k - 1 <= Len(s)
           /\ WordStartsAt(s, p)
           /\ Lower(SubSeq(s, p, p + k - 1)) = Factura
           /\ w >= 1
           /\ c >= 1
        THEN << g, g + c - 1 >> ELSE << 0, 0 >>

\* The group 1 of a pattern that is its whole match, from p to e.
WholeMatch(p, e) == IF e > 0 THEN << p, e >> ELSE << 0, 0 >>

\* The patterns by name: <<start, end>> of group 1 of the match of the
\* pattern at p, or <<0, 0>>.
PatternGroup(pattern, s, p) ==
    CASE pattern = "letters_digits" ->
             WholeMatch(p, LettersDigitsEnd(s, p, LettersThenDigits(s, p, 0)))
      [] pattern = "letters_hyphen_digits" ->
             WholeMatch(p, LettersHyphenDigitsEnd(s, p,
                                                  LettersThenDigits(s, p, 1)))
      [] pattern = "factura" ->
             FacturaGroup(s, p, SpacesThenIdChars(s, p + Len(Factura)))
      [] pattern = "nit_shape" ->
             WholeMatch(p, NitShapeEnd(s, p, LettersThenDigits(s, p, 0)))
      [] pattern = "cufe" ->
             WholeMatch(p, CufeEnd(s, p, RunLen(s, p, "alnum")))

\* The group 1 of the leftmost match, where groups[p] is the group 1 of the
\* match at p; NoText when nothing matches.
LeftmostGroup(s, groups) ==
    LET hits == { p \in DOMAIN groups : groups[p][1] > 0 }
    IN  IF hits = {} THEN NoText
        ELSE LET p == CHOOSE q \in hits : \A r \in hits : q <= r
             IN  SubSeq(s, groups[p][1], groups[p][2])

\* re.search(pattern, s, re.IGNORECASE): group 1 of the leftmost match.
Search(s, pattern) ==
    LeftmostGroup(s, [p \in 1..Len(s) |-> PatternGroup(pattern, s, p)])

\* A variant of FirstMatch in which the match that starts leftmost in the
\* text decides, whatever its pattern.
LeftmostOfAll(text, patterns, i) ==
    LET groups == [p \in 1..Len(text) |->
                      [k \in i..Len(patterns) |->
                          PatternGroup(patterns[k], text, p)]]
        hits == { p \in 1..Len(text) :
                      \E k \in i..Len(patterns) : groups[p][k][1] > 0 }
    IN  IF hits = {} THEN NoText
        ELSE LET p == CHOOSE q \in hits : \A r \in hits : q <= r
                 k == CHOOSE j \in i..Len(patterns) :
                          /\ groups[p][j][1] > 0
                          /\ \A h \in i..Len(patterns) :
                                 groups[p][h][1] > 0 => j <= h
             IN  SubSeq(text, groups[p][k][1], groups[p][k][2])

\* The first pattern of the list that matches decides (for pattern in ...).
RECURSIVE FirstMatch(_, _, _)
FirstMatch(text, patterns, i) ==
    IF i > Len(patterns) THEN NoText
    ELSE LET found == Search(text, patterns[i])
         IN  IF found # NoText THEN found
             ELSE FirstMatch(text, patterns, i + 1)

\* flows/custom_agent.py: invoice_patterns, then the CUFE pattern.
FlowPatterns ==
    << "letters_digits", "letters_hyphen_digits", "factura", "cufe" >>
\* services/custom_agent_service.py: invoice_patterns, then the CUFE pattern.
ServicePatterns ==
    << "letters_digits", "letters_hyphen_digits", "factura", "nit_shape",
       "cufe" >>

\* flows/custom_agent.py: _extract_invoice_identifier_from_text
ExtractInvoiceIdentifierFromText(text) == FirstMatch(text, FlowPatterns, 1)

\* services/custom_agent_service.py:
\* CustomAgentService._extract_invoice_identifier
ExtractInvoiceIdentifier(question) == FirstMatch(question, ServicePatterns, 1)

\* ------------------------------------------------------------------- texts
\* Questions asked of the service.
QFactura == << "f","a","c","t","u","r","a"," ","A","B","1","2","3","4","5","6" >>
QVence == << "v","e","n","c","e"," ","a","b","1","2","3","4","5","6","?" >>
QGuion == << "v","e","r"," ","F","-","1","2" >>
QHola == << "h","o","l","a" >>
Questions == { QVence, QHola }

\* Texts the RAG tool may answer with.
PayloadAB == << "A","B","1","2","3","4","5","6"," ","t","o","t","a","l"," ","9" >>
PayloadCD == << "C","D","6","5","4","3","2","1"," ","t","o","t","a","l"," ","7" >>
PayloadError == << "E","r","r","o","r",":"," ","t","i","m","e","o","u","t" >>
\* rag_get_invoice_data answering with the empty string.
PayloadEmpty == << >>
RagTexts == { PayloadAB, PayloadCD, PayloadEmpty, PayloadError }

\* Names of tools.
RagName == << "r","a","g","_","g","e","t","_","i","n","v","o","i","c","e","_","d","a","t","a" >>
CalcName == << "c","a","l","c","u","l","a","r","_","v","e","n","c","i","m","i","e","n","t","o" >>
UnknownName == << "b","o","r","r","a","r" >>

\* Literals of the code.
ErrorPrefix == << "E","r","r","o","r" >>
InvoicePrefix == << "i","n","v","o","i","c","e","_" >>
QueryPrefix == << "q","u","e","r","y","_" >>
ErrNoExisteA == << "E","r","r","o","r",":"," ","h","e","r","r","a","m","i","e","n","t","a"," ","'" >>
ErrNoExisteB == << "'"," ","n","o"," ","e","x","i","s","t","e","." >>
ErrEjecutando == << "E","r","r","o","r"," ","e","j","e","c","u","t","a","n","d","o"," ","h","e","r","r","a","m","i","e","n","t","a"," " >>
ColonSpace == << ":"," " >>
\* "No se genero ninguna respuesta." (the accent of the source is dropped)
NoAnswer == << "N","o"," ","s","e"," ","g","e","n","e","r","o"," ","n","i","n","g","u","n","a"," ","r","e","s","p","u","e","s","t","a","." >>

\* Texts of the environment: an exception's message, a JSON result, the str()
\* of a result that is no string, the model's answers.
ExcText == << "t","i","m","e","o","u","t" >>
CalcJson == << "{","}" >>
NonStrRepr == << "[","]" >>
AnswerOk == << "o","k" >>
AnswerTexts == { AnswerOk }

\* --------------------------------------------------------------- thread id
\* hashlib.md5(question.encode()).hexdigest()[:8], tabulated for the questions
\* of the model.
Md5Hex8(question) ==
    CASE question = QFactura -> << "2","1","6","3","0","2","e","8" >>
      [] question = QVence -> << "e","b","0","2","c","0","8","f" >>
      [] question = QGuion -> << "1","9","f","e","3","a","8","d" >>
      [] question = QHola -> << "4","d","1","8","6","3","2","1" >>

\* A variant of ThreadIdFor that leaves the "invoice_" prefix out.
ThreadIdForBare(invoice_id, question) ==
    IF invoice_id # NoText
    THEN ReplaceHyphen(Lower(invoice_id))
    ELSE QueryPrefix \o Md5Hex8(question)

\* A variant of ThreadIdFor that keeps the case of the identifier.
ThreadIdForAsIs(invoice_id, question) ==
    IF invoice_id # NoText
    THEN InvoicePrefix \o ReplaceHyphen(invoice_id)
    ELSE QueryPrefix \o Md5Hex8(question)

\* CustomAgentService._generate_thread_id
\* _generate_thread_id, lines 157-169: the thread id, given the identifier
\* found in the question.
ThreadIdFor(invoice_id, question) ==
    IF invoice_id # NoText
    THEN InvoicePrefix \o ReplaceHyphen(Lower(invoice_id))
    ELSE QueryPrefix \o Md5Hex8(question)

GenerateThreadId(question) ==
    ThreadIdFor(ExtractInvoiceIdentifier(question), question)


\* ---------------------------------------------------------------- messages
\* A message of the conversation (langchain_core BaseMessage): its type, its
\* id, its content, the tool calls of an AIMessage and the tool_call_id of a
\* ToolMessage.  An id is <<ask number, serial>>.
NoId == << 0, 0 >>
NoCall == 0

HumanMessage(content) ==
    [type |-> "human", id |-> NoId, content |-> content,
     tool_calls |-> << >>, tool_call_id |-> NoCall]
AIMessage(content, tool_calls) ==
    [type |-> "ai", id |-> NoId, content |-> content,
     tool_calls |-> tool_calls, tool_call_id |-> NoCall]
ToolMessage(content, tool_call_id) ==
    [type |-> "tool", id |-> NoId, content |-> content,
     tool_calls |-> << >>, tool_call_id |-> tool_call_id]

\* langgraph add_messages, first half: a message without an id gets a fresh
\* one (uuid4).  Fresh ids are <<ask, n + 1>>, <<ask, n + 2>>, ...
RECURSIVE AssignIds(_, _, _)
AssignIds(msgs, ask, n) ==
    IF msgs = << >> THEN << >>
    ELSE IF Head(msgs).id = NoId
    THEN << [Head(msgs) EXCEPT !.id = << ask, n + 1 >>] >>
             \o AssignIds(Tail(msgs), ask, n + 1)
    ELSE << Head(msgs) >> \o AssignIds(Tail(msgs), ask, n)

NumWithoutId(msgs) == Cardinality({ i \in DOMAIN msgs : msgs[i].id = NoId })

\* langgraph add_messages, second half: a message of the update whose id is
\* already in the list replaces the message with that id, in place; any other
\* message is appended.
RECURSIVE MergeById(_, _)
MergeById(left, right) ==
    IF right = << >> THEN left
    ELSE LET m == Head(right)
             at == { i \in DOMAIN left : left[i].id = m.id }
         IN  IF at # {}
             THEN MergeById([left EXCEPT ![CHOOSE i \in at : TRUE] = m],
                            Tail(right))
             ELSE MergeById(Append(left, m), Tail(right))

\* A reducer that only appends (operator.add), for comparison.
AddMessagesConcat(left, right, ask, n) == left \o AssignIds(right, ask, n)

\* The reducer of AgentState.messages (Annotated[..., add_messages]).
AddMessages(left, right, ask, n) == MergeById(left, AssignIds(right, ask, n))

\* The value of AgentState.rag_invoice: None, or {"raw_text", "extracted"}.
NoInvoice == [present |-> FALSE, raw_text |-> << >>, extracted |-> FALSE]
Invoice(text) == [present |-> TRUE, raw_text |-> text, extracted |-> FALSE]


\* ------------------------------------------------------- nodes of the graph
\* The state a node receives: the values of the two channels of AgentState.
\* What a node returns is an update: the "messages" to hand to the reducer
\* and, when has_rag, the new value of "rag_invoice".

\* The system prompt and the contextual note, abridged: the note is
\* "Contexto: ... (<len(invoice_text)> caracteres) ...".
SystemPrompt == << "E","r","e","s" >>
ContextPrefix == << "C","o","n","t","e","x","t","o",":"," ","(" >>
ContextSuffix == << " ","c","a","r","a","c","t","e","r","e","s",")" >>

SystemMessage(content) ==
    [type |-> "system", id |-> NoId, content |-> content,
     tool_calls |-> << >>, tool_call_id |-> NoCall]

\* str(n) of a natural number.
RECURSIVE Decimal(_)
Decimal(n) ==
    IF n < 10 THEN << DigitSeq[n + 1] >>
    ELSE Decimal(n \div 10) \o << DigitSeq[(n % 10) + 1] >>

ContextNote(invoice_text) ==
    HumanMessage(ContextPrefix \o Decimal(Len(invoice_text)) \o ContextSuffix)

\* decide_node, lines 305-310: the identifier of the most recent
\* HumanMessage that has one; the scan goes backwards and stops at the first
\* identifier found.
RECURSIVE ScanHumanIds(_, _)
ScanHumanIds(msgs, i) ==
    IF i = 0 THEN NoText
    ELSE IF msgs[i].type # "human" THEN ScanHumanIds(msgs, i - 1)
    ELSE LET found == ExtractInvoiceIdentifierFromText(msgs[i].content)
         IN  IF found # NoText THEN found ELSE ScanHumanIds(msgs, i - 1)

CurrentInvoiceId(msgs) == ScanHumanIds(msgs, Len(msgs))

\* decide_node, lines 313-319: is the cached invoice one of another invoice
\* than the question's?
DifferentIds(prev_invoice_id, current_invoice_id) ==
    /\ current_invoice_id # NoText
    /\ prev_invoice_id # NoText
    /\ Upper(prev_invoice_id) # Upper(current_invoice_id)

DifferentInvoice(msgs, rag) ==
    /\ rag.present
    /\ DifferentIds(ExtractInvoiceIdentifierFromText(rag.raw_text),
                    CurrentInvoiceId(msgs))

\* decide_node without the rule of lines 313-319, for comparison.
LocalRagInvoiceKept(msgs, rag) == rag

\* The value of state["rag_invoice"] inside decide_node after line 319.  The
\* assignment changes the dict the node was handed, not the channel.
LocalRagInvoice(msgs, rag) ==
    IF DifferentInvoice(msgs, rag) THEN NoInvoice ELSE rag

\* decide_node, lines 324-336: the messages sent to the model.
StateMessagesForModel(msgs) ==
    SelectSeq(msgs, LAMBDA m : m.type \in { "human", "ai", "tool" })

NoteFor(rag) ==
    IF rag.present /\ rag.raw_text # << >>
    THEN << ContextNote(rag.raw_text) >> ELSE << >>

BuildPrompt(msgs, rag) ==
    << SystemMessage(SystemPrompt) >>
        \o StateMessagesForModel(msgs)
        \o NoteFor(LocalRagInvoice(msgs, rag))

\* decide_node, line 344: the update returned for an AIMessage response.
DecideUpdate(msgs, response) ==
    [messages |-> msgs \o << response >>,
     has_rag |-> FALSE, rag_invoice |-> NoInvoice]

\* The registry the agent is built with (tools_by_name): two of the filtered
\* tools stand for the fourteen.
ToolsByName == { RagName, CalcName }

\* What tool.ainvoke does: returns a string, returns something that is no
\* string, or raises.  text is the string, the str() of the value, or the
\* exception's message.
Outcome(kind, text) == [kind |-> kind, text |-> text]
NotInvoked == Outcome("none", << >>)
RagOutcomes ==
    { Outcome("str", x) : x \in RagTexts }
        \cup { Outcome("raise", ExcText), Outcome("nonstr", NonStrRepr) }
OtherOutcomes == { Outcome("str", CalcJson), Outcome("raise", ExcText) }
OutcomesOf(name) ==
    IF name \notin ToolsByName THEN { NotInvoked }
    ELSE IF name = RagName THEN RagOutcomes
    ELSE OtherOutcomes

\* tools_node with "result = str(e)" in the except branch, for comparison.
ToolResultBare(call, out) ==
    IF call.name \notin ToolsByName
    THEN ErrNoExisteA \o call.name \o ErrNoExisteB
    ELSE out.text

\* tools_node, lines 363-381: the value of result for one call.
ToolResult(call, out) ==
    IF call.name \notin ToolsByName
    THEN ErrNoExisteA \o call.name \o ErrNoExisteB
    ELSE IF out.kind = "raise"
    THEN ErrEjecutando \o call.name \o ColonSpace \o out.text
    ELSE out.text

\* tools_node without the startswith("Error") test, for comparison.
StoresInvoiceAnyString(call, out) ==
    /\ call.name \in ToolsByName
    /\ out.kind # "raise"
    /\ call.name = RagName
    /\ out.kind = "str"

\* tools_node, lines 371-376: does this call store its result in
\* updated_state["rag_invoice"]?
StoresInvoice(call, out) ==
    /\ call.name \in ToolsByName
    /\ out.kind # "raise"
    /\ call.name = RagName
    /\ out.kind = "str"
    /\ ~StartsWith(out.text, ErrorPrefix)

\* tools_node tagging a result with its position in the loop instead of
\* call["id"], for comparison.
ToolsStepByPosition(acc, call, out) ==
    [messages |-> Append(acc.messages,
                         ToolMessage(ToolResult(call, out),
                                     Len(acc.messages) + 1)),
     has_rag |-> acc.has_rag \/ StoresInvoice(call, out),
     rag_invoice |-> IF StoresInvoice(call, out)
                     THEN Invoice(out.text) ELSE acc.rag_invoice,
     invoked |-> IF call.name \in ToolsByName
                 THEN Append(acc.invoked, call.id) ELSE acc.invoked]

\* tools_node, lines 359-388: one iteration of the loop over tool_calls.  acc
\* is what the iterations before it built: new_messages, updated_state, and
\* the calls whose tool was invoked, in the order of the invocations.
ToolsStep(acc, call, out) ==
    [messages |-> Append(acc.messages,
                         ToolMessage(ToolResult(call, out), call.id)),
     has_rag |-> acc.has_rag \/ StoresInvoice(call, out),
     rag_invoice |-> IF StoresInvoice(call, out)
                     THEN Invoice(out.text) ELSE acc.rag_invoice,
     invoked |-> IF call.name \in ToolsByName
                 THEN Append(acc.invoked, call.id) ELSE acc.invoked]

RECURSIVE ToolsLoop(_, _, _, _)
ToolsLoop(acc, tool_calls, os, i) ==
    IF i > Len(tool_calls) THEN acc
    ELSE ToolsLoop(ToolsStep(acc, tool_calls[i], os[i]),
                   tool_calls, os, i + 1)

\* tools_node looping over reversed(tool_calls), for comparison.
Reverse(q) == [i \in DOMAIN q |-> q[Len(q) + 1 - i]]
ToolsUpdateReversed(msgs, os) ==
    LET last == msgs[Len(msgs)]
    IN  ToolsLoop([messages |-> << >>, has_rag |-> FALSE,
                   rag_invoice |-> NoInvoice, invoked |-> << >>],
                  Reverse(last.tool_calls), Reverse(os), 1)

\* tools_node: the update returned (with the order of the invocations).
ToolsUpdate(msgs, os) ==
    LET last == msgs[Len(msgs)]
    IN  ToolsLoop([messages |-> << >>, has_rag |-> FALSE,
                   rag_invoice |-> NoInvoice, invoked |-> << >>],
                  last.tool_calls, os, 1)

\* should_continue
END == "__end__"

\* should_continue testing the type of the last message only, for
\* comparison.
ShouldContinueAnyAI(msgs) ==
    LET last == msgs[Len(msgs)]
    IN  IF last.type = "ai" THEN "tools" ELSE END

ShouldContinue(msgs) ==
    LET last == msgs[Len(msgs)]
    IN  IF last.type = "ai" /\ last.tool_calls # << >>
        THEN "tools" ELSE END

\* build_custom_agent: the entry point and the edges of the graph.
EntryPoint == "decide"

\* The graph with add_edge("tools", END), for comparison.
NextNodeToolsEnd(node, msgs) ==
    IF node = "decide" THEN ShouldContinue(msgs) ELSE END

NextNode(node, msgs) ==
    IF node = "decide" THEN ShouldContinue(msgs) ELSE "decide"

\* graph.compile(checkpointer=...), for comparison.
GraphWithCheckpointer == TRUE

\* build_custom_agent, line 452: graph.compile() is given no checkpointer.
GraphHasCheckpointer == FALSE


\* ------------------------------------------------------------------- state
Tasks == { 1, 2 }

VARIABLES
    \* CustomAgentService
    server_parameters,  \* have the server parameters been set?
    lock,               \* _lock: the task that holds it, or 0
    stdio_ctx,          \* _stdio_ctx: the number of the transport, or 0 (None)
    session,            \* _session: the number of its transport, or 0 (None)
    agent,              \* agent: the number of the transport of the session
                        \* its tools are bound to, or 0 (None)
    checkpoints,        \* what a checkpointer of the graph holds, by thread id
    threadLog,          \* the thread ids given to agent.ainvoke, in order
    \* the environment
    nConn,              \* transports created so far
    openTransports,     \* transports entered and not exited
    openSessions,       \* sessions entered and not exited
    ready,              \* sessions whose handshake has completed
    nextAsk,            \* ask_custom calls made so far
    \* one ask_custom call per task
    pc,                 \* where the task is
    question,           \* the argument of ask_custom
    askNo,              \* the number of the call
    runConn,            \* the agent the graph runs with
    messages,           \* channel "messages" of the running graph
    rag_invoice,        \* channel "rag_invoice" of the running graph
    idCount,            \* ids handed out to messages of this call
    callCount,          \* tool calls requested in this call
    outcome,            \* how the last call ended: "none", "returned", "raised"
    answer,             \* what the last call returned
    \* history of the running graph
    nodes,              \* the nodes executed, in order
    modelCalls,         \* number of model.ainvoke calls
    prompt,             \* the messages of the last model.ainvoke
    invoked,            \* the calls of the last tools_node whose tool was
                        \* invoked, in the order of the invocations
    outs,               \* what the invocations of the last tools_node did
    cleared,            \* has decide_node cleared the invoice, with no
                        \* tools_node storing one since?
    response,           \* what the last model.ainvoke did: "none", "ai",
                        \* "other" (returned no AIMessage), "raise"
    \* shutdown
    nShutdowns,         \* shutdown calls made so far
    \* _generate_thread_id on its own
    kq,                 \* two questions
    kk,                 \* their thread ids, once derived
    \* the extractors of identifiers on their own
    ex_text,            \* the text searched
    ex_id,              \* << >>, then what the two extractors found in it
    \* calcular_vencimiento on its own
    fecha_emision,      \* the argument fecha_emision, a text
    dias_credito,       \* the argument dias_credito, an int, a str or None
    hoy,                \* datetime.now().date()
    calc_result,        \* NotCalled, then what the call did
    \* the tools of the MCP server that call a service over HTTP, on their own
    tool_name,          \* the tool called
    tool_data,          \* its argument data (create_*, update_*)
    http,               \* what the HTTP request of the call does
    tool_result         \* NotCalled, then what the call did

svcVars == << server_parameters, lock, stdio_ctx, session, agent >>
envVars == << nConn, openTransports, openSessions, ready >>
callVars == << question, askNo, outcome, answer >>
runVars == << runConn, messages, rag_invoice, idCount, callCount, nodes,
              modelCalls, prompt, invoked, outs, cleared, response >>
graphVars == << checkpoints, threadLog >>
extractVars == << ex_text, ex_id >>
calcVars == << fecha_emision, dias_credito, hoy, calc_result >>
toolVars == << tool_name, tool_data, http, tool_result >>
keyVars == << kq, kk, extractVars, calcVars, toolVars >>
vars == << svcVars, envVars, graphVars, nextAsk, pc, callVars, runVars,
           nShutdowns, keyVars >>

\* CustomAgentService.__init__
ServiceInit ==
    /\ server_parameters = FALSE
    /\ lock = 0
    /\ stdio_ctx = 0
    /\ session = 0
    /\ agent = 0
    /\ checkpoints = << >>
    /\ threadLog = << >>
    /\ nConn = 0
    /\ openTransports = {}
    /\ openSessions = {}
    /\ ready = {}
    /\ nextAsk = 0
    /\ pc = [t \in Tasks |-> "idle"]
    /\ question = [t \in Tasks |-> << >>]
    /\ askNo = [t \in Tasks |-> 0]
    /\ runConn = [t \in Tasks |-> 0]
    /\ messages = [t \in Tasks |-> << >>]
    /\ rag_invoice = [t \in Tasks |-> NoInvoice]
    /\ idCount = [t \in Tasks |-> 0]
    /\ callCount = [t \in Tasks |-> 0]
    /\ outcome = [t \in Tasks |-> "none"]
    /\ answer = [t \in Tasks |-> << >>]
    /\ nodes = [t \in Tasks |-> << >>]
    /\ modelCalls = [t \in Tasks |-> 0]
    /\ prompt = [t \in Tasks |-> << >>]
    /\ invoked = [t \in Tasks |-> << >>]
    /\ outs = [t \in Tasks |-> << >>]
    /\ cleared = [t \in Tasks |-> FALSE]
    /\ response = [t \in Tasks |-> "none"]
    /\ nShutdowns = 0

\* No function is taken on its own.
KeysIdle == kq = << >> /\ kk = << >>
ExtractIdle == ex_text = << >> /\ ex_id = << >>
\* What a call of a function returned, or the message of the exception it
\* raised; NotCalled before the call.
Returned(text) == [raised |-> FALSE, text |-> text]
Raised(text) == [raised |-> TRUE, text |-> text]
NotCalled == [raised |-> FALSE, text |-> << "?" >>]
\* A date (datetime.date) is << year, month, day >>; None is NoDate.
NoDate == << 0, 0, 0 >>
\* A Python value that is an int, a str or None.
PyInt(n) == [t |-> "int", n |-> n, s |-> << >>]
PyStr(s) == [t |-> "str", n |-> 0, s |-> s]
PyNone == [t |-> "none", n |-> 0, s |-> << >>]
CalcIdle ==
    /\ fecha_emision = << >>
    /\ dias_credito = PyNone
    /\ hoy = NoDate
    /\ calc_result = NotCalled
\* What an HTTP request does: a response arrives, with its status and body,
\* or httpx raises TimeoutException ("timeout"), another RequestError
\* ("request") or something else raises ("other"); msg is the str() of the
\* exception raised, by httpx or by response.json().
HttpResponse(status, body, msg) ==
    [kind |-> "response", status |-> status, body |-> body, msg |-> msg]
HttpRaises(kind, msg) ==
    [kind |-> kind, status |-> 0, body |-> << >>, msg |-> msg]
ToolIdle ==
    /\ tool_name = "none"
    /\ tool_data = << >>
    /\ http = HttpRaises("none", << >>)
    /\ tool_result = NotCalled

Init ==
    /\ ServiceInit
    /\ KeysIdle
    /\ ExtractIdle
    /\ CalcIdle
    /\ ToolIdle

\* CustomAgentService.set_server_parameters (main.py calls it at import)
SetServerParameters ==
    /\ ~server_parameters
    /\ server_parameters' = TRUE
    /\ UNCHANGED << lock, stdio_ctx, session, agent, envVars, graphVars,
                    nextAsk, pc, callVars, runVars, nShutdowns, keyVars >>

\* ------------------------------------------------------- running the graph
\* What a checkpointer holds for a thread: the channels' values.
EmptyChannels == [messages |-> << >>, rag_invoice |-> NoInvoice]
SavedChannels(thread_id) ==
    IF GraphHasCheckpointer /\ thread_id \in DOMAIN checkpoints
    THEN checkpoints[thread_id] ELSE EmptyChannels
Save(thread_id, msgs, rag) ==
    IF GraphHasCheckpointer
    THEN [x \in DOMAIN checkpoints \cup { thread_id } |->
             IF x = thread_id THEN [messages |-> msgs, rag_invoice |-> rag]
             ELSE checkpoints[x]]
    ELSE checkpoints

\* ask_custom, lines 197-200: the input of the graph.
InitialState(q) ==
    [messages |-> << HumanMessage(q) >>, has_rag |-> TRUE,
     rag_invoice |-> NoInvoice]

\* A graph whose END leads back to its entry point, for comparison.
PcOfRestart(node) == IF node = END THEN EntryPoint ELSE node

\* The node a finished step leads to, as a position of the task.
PcOf(node) == IF node = END THEN "done" ELSE node

\* ask_custom, lines 185-208, up to the first node of the graph: the thread
\* id, the input, and agent.ainvoke, which writes the input to the channels
\* (on top of what a checkpointer holds for the thread) and enters the
\* graph.  self.agent is None: ainvoke raises AttributeError.
EnterGraph(t, q, ask, agentNow, thread_id) ==
    LET saved == SavedChannels(thread_id)
        input == InitialState(q)
        msgs == AddMessages(saved.messages, input.messages, ask, 0)
        rag == IF input.has_rag THEN input.rag_invoice
               ELSE saved.rag_invoice
    IN  /\ pc' = [pc EXCEPT ![t] = PcOf(EntryPoint)]
        /\ runConn' = [runConn EXCEPT ![t] = agentNow]
        /\ messages' = [messages EXCEPT ![t] = msgs]
        /\ rag_invoice' = [rag_invoice EXCEPT ![t] = rag]
        /\ idCount' = [idCount EXCEPT ![t] = NumWithoutId(input.messages)]
        /\ callCount' = [callCount EXCEPT ![t] = 0]
        /\ nodes' = [nodes EXCEPT ![t] = << >>]
        /\ modelCalls' = [modelCalls EXCEPT ![t] = 0]
        /\ prompt' = [prompt EXCEPT ![t] = << >>]
        /\ invoked' = [invoked EXCEPT ![t] = << >>]
        /\ outs' = [outs EXCEPT ![t] = << >>]
        /\ cleared' = [cleared EXCEPT ![t] = FALSE]
        /\ response' = [response EXCEPT ![t] = "none"]
        /\ checkpoints' = Save(thread_id, msgs, rag)
        /\ threadLog' = Append(threadLog, thread_id)

RunAgent(t, q, ask, agentNow) ==
    IF agentNow = 0
    THEN /\ pc' = [pc EXCEPT ![t] = "failed"]
         /\ UNCHANGED << graphVars, runVars >>
    ELSE EnterGraph(t, q, ask, agentNow, GenerateThreadId(q))

\* ask_custom, line 182: is initialize() awaited?
NeedsInitialize(s, a) == s = 0 \/ a = 0

\* ask_custom, lines 181-183: a new call; initialize() is awaited when there
\* is no session or no agent.
AskStartWithin(t, q, limit) ==
    /\ pc[t] = "idle"
    /\ nextAsk + nShutdowns < limit
    /\ nextAsk' = nextAsk + 1
    /\ question' = [question EXCEPT ![t] = q]
    /\ askNo' = [askNo EXCEPT ![t] = nextAsk + 1]
    /\ outcome' = [outcome EXCEPT ![t] = "none"]
    /\ answer' = [answer EXCEPT ![t] = << >>]
    /\ IF NeedsInitialize(session, agent)
       THEN /\ pc' = [pc EXCEPT ![t] = "init_lock"]
            /\ UNCHANGED << graphVars, runVars >>
       ELSE RunAgent(t, q, nextAsk + 1, agent)
    /\ UNCHANGED << svcVars, envVars, nShutdowns, keyVars >>

AskStart(t, q) == AskStartWithin(t, q, MaxAsks)


\* -------------------------------------------------------------- initialize
\* An exception leaves initialize (and ask_custom): "async with" releases
\* the lock.
InitRaise(t) ==
    /\ pc' = [pc EXCEPT ![t] = "failed"]
    /\ lock' = 0
    /\ UNCHANGED << graphVars, runVars >>

\* A variant of MustConnect that also connects when there is no agent.
MustConnectAgentless(s, a) == s = 0 \/ a = 0

\* initialize, line 58: does initialize connect, given _session and agent?
MustConnect(s, a) == s = 0

\* initialize, lines 57-63: the lock is taken; with a session nothing is
\* done and ask_custom goes on; without server parameters ValueError is
\* raised; otherwise the transport's context is created.
InitEnter(t) ==
    /\ pc[t] = "init_lock"
    /\ lock = 0
    /\ IF ~MustConnect(session, agent)
       THEN /\ RunAgent(t, question[t], askNo[t], agent)
            /\ UNCHANGED << lock, stdio_ctx, nConn >>
       ELSE IF ~server_parameters
       THEN /\ InitRaise(t)
            /\ UNCHANGED << stdio_ctx, nConn >>
       ELSE /\ stdio_ctx' = nConn + 1
            /\ nConn' = nConn + 1
            /\ lock' = t
            /\ pc' = [pc EXCEPT ![t] = "init_stdio"]
            /\ UNCHANGED << graphVars, runVars >>
    /\ UNCHANGED << server_parameters, session, agent, openTransports,
                    openSessions, ready, nextAsk, callVars, nShutdowns,
                    keyVars >>

\* initialize, line 64: await self._stdio_ctx.__aenter__()
InitStdio(t) ==
    /\ pc[t] = "init_stdio"
    /\ \E ok \in BOOLEAN :
          IF ok
          THEN /\ openTransports' = openTransports \cup { stdio_ctx }
               /\ pc' = [pc EXCEPT ![t] = "init_session"]
               /\ UNCHANGED << lock, graphVars, runVars >>
          ELSE /\ InitRaise(t)
               /\ UNCHANGED openTransports
    /\ UNCHANGED << server_parameters, stdio_ctx, session, agent, nConn,
                    openSessions, ready, nextAsk, callVars, nShutdowns,
                    keyVars >>

\* initialize, line 65: self._session = await ClientSession(...).__aenter__()
InitSession(t) ==
    /\ pc[t] = "init_session"
    /\ \E ok \in BOOLEAN :
          IF ok
          THEN /\ session' = stdio_ctx
               /\ openSessions' = openSessions \cup { stdio_ctx }
               /\ pc' = [pc EXCEPT ![t] = "init_handshake"]
               /\ UNCHANGED << lock, graphVars, runVars >>
          ELSE /\ InitRaise(t)
               /\ UNCHANGED << session, openSessions >>
    /\ UNCHANGED << server_parameters, stdio_ctx, agent, nConn,
                    openTransports, ready, nextAsk, callVars, nShutdowns,
                    keyVars >>

\* initialize, line 66: await self._session.initialize()
InitHandshake(t) ==
    /\ pc[t] = "init_handshake"
    /\ \E ok \in BOOLEAN :
          IF ok
          THEN /\ ready' = ready \cup { session }
               /\ pc' = [pc EXCEPT ![t] = "init_load"]
               /\ UNCHANGED << lock, graphVars, runVars >>
          ELSE /\ InitRaise(t)
               /\ UNCHANGED ready
    /\ UNCHANGED << server_parameters, stdio_ctx, session, agent, nConn,
                    openTransports, openSessions, nextAsk, callVars,
                    nShutdowns, keyVars >>

\* initialize, lines 70-112: await load_tools(self._session), then the agent
\* is built and the lock released; ask_custom goes on with the new agent.
InitLoad(t) ==
    /\ pc[t] = "init_load"
    /\ \E ok \in BOOLEAN :
          IF ok
          THEN /\ agent' = session
               /\ lock' = 0
               /\ RunAgent(t, question[t], askNo[t], session)
          ELSE /\ InitRaise(t)
               /\ UNCHANGED agent
    /\ UNCHANGED << server_parameters, stdio_ctx, session, envVars, nextAsk,
                    callVars, nShutdowns, keyVars >>

\* ------------------------------------------------------------ decide_node
\* What model.ainvoke does: it returns an AIMessage (with content and the
\* names of the tools it calls), returns something else, or raises.
RequestedNames == ToolsByName \cup { UnknownName }
SeqsUpTo(S, n) == UNION { [1..k -> S] : k \in 0..n }
ModelResponses(t) ==
    { [kind |-> "ai", content |-> c, names |-> << >>] : c \in AnswerTexts }
        \cup { [kind |-> "ai", content |-> << >>, names |-> ns] :
                 ns \in SeqsUpTo(RequestedNames, MaxCalls - callCount[t])
                          \ { << >> } }
        \cup { [kind |-> k, content |-> << >>, names |-> << >>] :
                 k \in { "other", "raise" } }

\* The tool calls of a response: the ids are new ones.
ToolCalls(names, n) ==
    [i \in DOMAIN names |-> [id |-> n + i, name |-> names[i]]]

\* What model.ainvoke returned, as a message: an AIMessage or an object of
\* another type.
ModelMessage(r, n) ==
    [AIMessage(r.content, ToolCalls(r.names, n)) EXCEPT !.type = r.kind]

\* A variant of IsAIMessage that takes whatever the model returned.
IsAIMessageAny(m) == TRUE

\* decide_node, line 341: isinstance(response, AIMessage)
IsAIMessage(m) == m.type = "ai"

\* agent.ainvoke is given no recursion_limit (ask_custom, line 207): the
\* graph executes at most LangGraph's default number of nodes.
RecursionLimit == 25

\* A graph that goes on whatever the number of nodes executed.
StepsLeftAlways(n) == TRUE

\* May the graph execute a node after n nodes?
StepsLeft(n) == n < RecursionLimit

\* One execution of decide_node and of the conditional edge after it, with
\* a model that answers with one of the responses.
DecideWith(t, responses) ==
    /\ pc[t] = "decide"
    /\ StepsLeft(Len(nodes[t]))
    /\ nodes' = [nodes EXCEPT ![t] = Append(@, "decide")]
    /\ modelCalls' = [modelCalls EXCEPT ![t] = @ + 1]
    /\ prompt' = [prompt EXCEPT
                    ![t] = BuildPrompt(messages[t], rag_invoice[t])]
    /\ LET different == DifferentInvoice(messages[t], rag_invoice[t])
       IN  \E r \in responses :
          /\ response' = [response EXCEPT ![t] = r.kind]
          /\ IF r.kind # "raise"
                /\ IsAIMessage(ModelMessage(r, callCount[t]))
             THEN LET update == DecideUpdate(messages[t],
                                    ModelMessage(r, callCount[t]))
                      msgs == AddMessages(messages[t], update.messages,
                                          askNo[t], idCount[t])
                      rag == IF update.has_rag THEN update.rag_invoice
                             ELSE rag_invoice[t]
                  IN  /\ messages' = [messages EXCEPT ![t] = msgs]
                      /\ rag_invoice' = [rag_invoice EXCEPT ![t] = rag]
                      /\ idCount' = [idCount EXCEPT
                            ![t] = @ + NumWithoutId(update.messages)]
                      /\ callCount' = [callCount EXCEPT
                            ![t] = @ + Len(r.names)]
                      /\ cleared' = [cleared EXCEPT
                            ![t] = IF update.has_rag
                                   THEN ~update.rag_invoice.present
                                   ELSE @ \/ different]
                      /\ pc' = [pc EXCEPT
                            ![t] = PcOf(NextNode("decide", msgs))]
                      /\ checkpoints' =
                            Save(GenerateThreadId(question[t]), msgs, rag)
             ELSE /\ pc' = [pc EXCEPT ![t] = "failed"]
                  /\ UNCHANGED << messages, rag_invoice, idCount, callCount,
                                  cleared, checkpoints >>
    /\ UNCHANGED << svcVars, envVars, threadLog, nextAsk, callVars, runConn,
                    invoked, outs, nShutdowns, keyVars >>

Decide(t) == DecideWith(t, ModelResponses(t))

\* -------------------------------------------------------------- tools_node
Last(q) == q[Len(q)]

\* The outcomes of the invocations of a sequence of tool calls.
RECURSIVE OutcomeSeqs(_)
OutcomeSeqs(tool_calls) ==
    IF tool_calls = << >> THEN { << >> }
    ELSE { << o >> \o rest : o \in OutcomesOf(Head(tool_calls).name),
                             rest \in OutcomeSeqs(Tail(tool_calls)) }

\* One execution of tools_node and of the edge after it, with tools whose
\* invocations do one of outcomeSeqs.
ToolsWith(t, outcomeSeqs) ==
    /\ pc[t] = "tools"
    /\ StepsLeft(Len(nodes[t]))
    /\ \E os \in outcomeSeqs :
              /\ outs' = [outs EXCEPT ![t] = os]
              /\ LET update == ToolsUpdate(messages[t], os)
                     msgs == AddMessages(messages[t], update.messages,
                                         askNo[t], idCount[t])
                     rag == IF update.has_rag THEN update.rag_invoice
                            ELSE rag_invoice[t]
                 IN  /\ messages' = [messages EXCEPT ![t] = msgs]
                     /\ rag_invoice' = [rag_invoice EXCEPT ![t] = rag]
                     /\ idCount' = [idCount EXCEPT
                           ![t] = @ + NumWithoutId(update.messages)]
                     /\ invoked' = [invoked EXCEPT ![t] = update.invoked]
                     /\ cleared' = [cleared EXCEPT
                           ![t] = IF update.has_rag THEN FALSE ELSE @]
                     /\ pc' = [pc EXCEPT
                           ![t] = PcOf(NextNode("tools", msgs))]
                     /\ checkpoints' =
                           Save(GenerateThreadId(question[t]), msgs, rag)
    /\ nodes' = [nodes EXCEPT ![t] = Append(@, "tools")]
    /\ UNCHANGED << svcVars, envVars, threadLog, nextAsk, callVars, runConn,
                    callCount, modelCalls, prompt, response, nShutdowns,
                    keyVars >>

Tools(t) == ToolsWith(t, OutcomeSeqs(Last(messages[t]).tool_calls))

\* ---------------------------------------------------- the end of ask_custom
\* A variant of FinalAnswer that takes the first message.
FinalAnswerFirst(msgs) ==
    IF msgs = << >> THEN NoAnswer ELSE msgs[1].content

\* ask_custom, lines 213-225: the graph has ended; the answer is returned.
FinalAnswer(msgs) ==
    IF msgs = << >> THEN NoAnswer ELSE msgs[Len(msgs)].content

\* The result of ainvoke and the history of the run are gone when
\* ask_custom ends.
Forget(t) ==
    /\ runConn' = [runConn EXCEPT ![t] = 0]
    /\ messages' = [messages EXCEPT ![t] = << >>]
    /\ rag_invoice' = [rag_invoice EXCEPT ![t] = NoInvoice]
    /\ idCount' = [idCount EXCEPT ![t] = 0]
    /\ callCount' = [callCount EXCEPT ![t] = 0]
    /\ nodes' = [nodes EXCEPT ![t] = << >>]
    /\ modelCalls' = [modelCalls EXCEPT ![t] = 0]
    /\ prompt' = [prompt EXCEPT ![t] = << >>]
    /\ invoked' = [invoked EXCEPT ![t] = << >>]
    /\ outs' = [outs EXCEPT ![t] = << >>]
    /\ cleared' = [cleared EXCEPT ![t] = FALSE]
    /\ response' = [response EXCEPT ![t] = "none"]

AskReturn(t) ==
    /\ pc[t] = "done"
    /\ pc' = [pc EXCEPT ![t] = "idle"]
    /\ outcome' = [outcome EXCEPT ![t] = "returned"]
    /\ answer' = [answer EXCEPT ![t] = FinalAnswer(messages[t])]
    /\ Forget(t)
    /\ UNCHANGED << svcVars, envVars, graphVars, nextAsk, question, askNo,
                    nShutdowns, keyVars >>

\* The exception of initialize or of the graph leaves ask_custom.
AskRaise(t) ==
    /\ pc[t] = "failed"
    /\ pc' = [pc EXCEPT ![t] = "idle"]
    /\ outcome' = [outcome EXCEPT ![t] = "raised"]
    /\ Forget(t)
    /\ UNCHANGED << svcVars, envVars, graphVars, nextAsk, question, askNo,
                    answer, nShutdowns, keyVars >>

\* ----------------------------------------------------------- specification
\* One caller: the asks follow one another.
Callers == { 1 }

Next ==
    \/ SetServerParameters
    \/ \E t \in Callers, q \in Questions : AskStart(t, q)
    \/ \E t \in Callers : InitEnter(t)
    \/ \E t \in Callers : InitStdio(t)
    \/ \E t \in Callers : InitSession(t)
    \/ \E t \in Callers : InitHandshake(t)
    \/ \E t \in Callers : InitLoad(t)
    \/ \E t \in Callers : Decide(t)
    \/ \E t \in Callers : Tools(t)
    \/ \E t \in Callers : AskReturn(t)
    \/ \E t \in Callers : AskRaise(t)

Spec == Init /\ [][Next]_vars


\* ------------------------------------------------------ a model that loops
\* The model answers, or calls a tool that does not exist, however many
\* calls it has made.
LoopResponses ==
    { [kind |-> "ai", content |-> AnswerOk, names |-> << >>],
      [kind |-> "ai", content |-> << >>, names |-> << UnknownName >>] }

DecideLoop(t) == DecideWith(t, LoopResponses)

\* agent.ainvoke, ask_custom line 208: a node is due and the graph has no
\* step left; GraphRecursionError is raised and leaves ask_custom.
OutOfSteps(t) ==
    /\ pc[t] \in { "decide", "tools" }
    /\ ~StepsLeft(Len(nodes[t]))
    /\ pc' = [pc EXCEPT ![t] = "failed"]
    /\ UNCHANGED << svcVars, envVars, graphVars, nextAsk, callVars, runVars,
                    nShutdowns, keyVars >>

NextLoop ==
    \/ SetServerParameters
    \/ \E t \in Callers, q \in Questions : AskStart(t, q)
    \/ \E t \in Callers : InitEnter(t)
    \/ \E t \in Callers : InitStdio(t)
    \/ \E t \in Callers : InitSession(t)
    \/ \E t \in Callers : InitHandshake(t)
    \/ \E t \in Callers : InitLoad(t)
    \/ \E t \in Callers : DecideLoop(t)
    \/ \E t \in Callers : Tools(t)
    \/ \E t \in Callers : OutOfSteps(t)
    \/ \E t \in Callers : AskReturn(t)
    \/ \E t \in Callers : AskRaise(t)

SpecLoop == Init /\ [][NextLoop]_vars

\* ---------------------------------------------------------------- shutdown
\* shutdown, line 232: a task calls shutdown and waits for the lock.
ShutdownStartWithin(t, limit) ==
    /\ pc[t] = "idle"
    /\ nextAsk + nShutdowns < limit
    /\ nShutdowns' = nShutdowns + 1
    /\ pc' = [pc EXCEPT ![t] = "sd_lock"]
    /\ outcome' = [outcome EXCEPT ![t] = "none"]
    /\ UNCHANGED << svcVars, envVars, graphVars, nextAsk, question, askNo,
                    answer, runVars, keyVars >>

ShutdownStart(t) == ShutdownStartWithin(t, MaxAsks)

\* shutdown, lines 236-239, reached with transport ctx in _stdio_ctx: its
\* exit is awaited if there is one, else shutdown returns and "async with"
\* releases the lock held by t.
ShutdownTransport(t, ctx) ==
    IF ctx # 0
    THEN /\ pc' = [pc EXCEPT ![t] = "sd_stdio"]
         /\ lock' = t
         /\ UNCHANGED outcome
    ELSE /\ pc' = [pc EXCEPT ![t] = "idle"]
         /\ lock' = 0
         /\ outcome' = [outcome EXCEPT ![t] = "returned"]

\* shutdown, lines 232-234: the lock is taken; the session's exit is awaited
\* if there is a session.
ShutdownEnter(t) ==
    /\ pc[t] = "sd_lock"
    /\ lock = 0
    /\ IF session # 0
       THEN /\ pc' = [pc EXCEPT ![t] = "sd_session"]
            /\ lock' = t
            /\ UNCHANGED outcome
       ELSE ShutdownTransport(t, stdio_ctx)
    /\ UNCHANGED << server_parameters, stdio_ctx, session, agent, envVars,
                    graphVars, nextAsk, question, askNo, answer, runVars,
                    nShutdowns, keyVars >>

\* shutdown, lines 234-235: await self._session.__aexit__(...) ends; the
\* session is closed; _session is set to None unless the exit raised, and
\* the exception leaves shutdown.  self.agent is left as it is.
ShutdownSession(t) ==
    /\ pc[t] = "sd_session"
    /\ openSessions' = openSessions \ { session }
    /\ \E ok \in BOOLEAN :
          IF ok
          THEN /\ session' = 0
               /\ ShutdownTransport(t, stdio_ctx)
          ELSE /\ pc' = [pc EXCEPT ![t] = "idle"]
               /\ lock' = 0
               /\ outcome' = [outcome EXCEPT ![t] = "raised"]
               /\ UNCHANGED session
    /\ UNCHANGED << server_parameters, stdio_ctx, agent, nConn,
                    openTransports, ready, graphVars, nextAsk, question,
                    askNo, answer, runVars, nShutdowns, keyVars >>

\* shutdown, lines 237-239: await self._stdio_ctx.__aexit__(...) ends; the
\* transport is closed; _stdio_ctx is set to None unless the exit raised.
ShutdownStdio(t) ==
    /\ pc[t] = "sd_stdio"
    /\ openTransports' = openTransports \ { stdio_ctx }
    /\ pc' = [pc EXCEPT ![t] = "idle"]
    /\ lock' = 0
    /\ \E ok \in BOOLEAN :
          IF ok
          THEN /\ stdio_ctx' = 0
               /\ outcome' = [outcome EXCEPT ![t] = "returned"]
          ELSE /\ outcome' = [outcome EXCEPT ![t] = "raised"]
               /\ UNCHANGED stdio_ctx
    /\ UNCHANGED << server_parameters, session, agent, nConn, openSessions,
                    ready, graphVars, nextAsk, question, askNo, answer,
                    runVars, nShutdowns, keyVars >>

\* ------------------------------------------------------- concurrent calls
\* The rounds of tool calls of one call in the concurrent specification.
MaxConcCalls == 1

\* The model answers, or asks for the invoice while it has asked fewer than
\* MaxConcCalls times.
ConcResponses(n) ==
    { [kind |-> "ai", content |-> AnswerOk, names |-> << >>] }
        \cup { [kind |-> "ai", content |-> << >>, names |-> << RagName >>] :
                 k \in (n + 1)..MaxConcCalls }

\* The tools work through the session the agent was built on: their
\* invocations raise once that session is closed.
ConcOutcomes(open) ==
    IF open THEN { Outcome("str", PayloadAB), Outcome("str", PayloadCD) }
    ELSE { Outcome("raise", ExcText) }
ConcOutcomeSeqs(tool_calls, open) ==
    { [i \in DOMAIN tool_calls |-> o] : o \in ConcOutcomes(open) }

DecideConc(t) == DecideWith(t, ConcResponses(callCount[t]))
ToolsConc(t) ==
    ToolsWith(t, ConcOutcomeSeqs(Last(messages[t]).tool_calls,
                                 runConn[t] \in openSessions))

\* Calls of ask_custom and of shutdown by the tasks of one event loop: a
\* task runs from one await to the next, and the tasks interleave there.
NextConc ==
    \/ SetServerParameters
    \/ \E t \in Tasks, q \in Questions : AskStart(t, q)
    \/ \E t \in Tasks : InitEnter(t)
    \/ \E t \in Tasks : InitStdio(t)
    \/ \E t \in Tasks : InitSession(t)
    \/ \E t \in Tasks : InitHandshake(t)
    \/ \E t \in Tasks : InitLoad(t)
    \/ \E t \in Tasks : DecideConc(t)
    \/ \E t \in Tasks : ToolsConc(t)
    \/ \E t \in Tasks : AskReturn(t)
    \/ \E t \in Tasks : AskRaise(t)
    \/ \E t \in Tasks : ShutdownStart(t)
    \/ \E t \in Tasks : ShutdownEnter(t)
    \/ \E t \in Tasks : ShutdownSession(t)
    \/ \E t \in Tasks : ShutdownStdio(t)

SpecConc == Init /\ [][NextConc]_vars

\* ------------------------------------------- _generate_thread_id on its own
\* Further questions: another identifier, two identifiers, a longer one, the
\* identifier of QGuion in lower case, and that identifier without hyphen.
QOtra == << "C","D","6","5","4","3","2","1" >>
QDos == << "C","D","6","5","4","3","2","1"," ","A","B","1","2","3","4","5","6" >>
QLarga == << "A","B","1","2","3","4","5","6","7" >>
QFacturaGuion == << "f","a","c","t","u","r","a"," ","f","-","1","2" >>
QSinGuion == << "f","a","c","t","u","r","a"," ","F","1","2" >>

KeyQuestions ==
    { QFactura, QVence, QGuion, QHola, QOtra, QDos, QLarga, QFacturaGuion,
      QSinGuion }

\* Two questions are given.
InitKeys ==
    /\ ServiceInit
    /\ kq \in KeyQuestions \X KeyQuestions
    /\ kk = << >>
    /\ ExtractIdle
    /\ CalcIdle
    /\ ToolIdle

\* _generate_thread_id is applied to each of the two questions.
DeriveKeys ==
    /\ kk = << >>
    /\ kk' = << GenerateThreadId(kq[1]), GenerateThreadId(kq[2]) >>
    /\ UNCHANGED << svcVars, envVars, graphVars, nextAsk, pc, callVars,
                    runVars, nShutdowns, kq, extractVars, calcVars,
                    toolVars >>

NextKeys == DeriveKeys

SpecKeys == InitKeys /\ [][NextKeys]_vars

\* ----------------------------------------------- the extractors on their own
\* Pieces of text: identifiers of each shape, in either case, words that are
\* no identifier, and a CUFE.
PieceAB == << "A","B","1","2","3","4","5","6" >>
PieceLower == << "h","b","e","1","2","2","0","9","0" >>
PieceNit == << "A","B","1","2","3","4","5","6","7","8","9" >>
PieceLong == << "A","B","C","D","E","1","2","3","4","5","6" >>
PieceHyphen == << "F","-","1","2" >>
PieceFactura == << "F","a","c","t","u","r","a"," ","x","9" >>
PieceWord == << "h","o","l","a" >>
PieceCufe ==
    << "A","B","C","D","E","F","G","H","I","J","K","L","M","N","O","P",
       "Q","R","S","T","U","V","W","X","Y","Z","1","2","3","4","5","6" >>
Pieces ==
    { PieceAB, PieceLower, PieceNit, PieceLong, PieceHyphen, PieceFactura,
      PieceWord, PieceCufe }
\* A piece, or two pieces with a space between them.
ExtractTexts == Pieces \cup { a \o << " " >> \o b : a, b \in Pieces }

\* A text is given.
InitExtract ==
    /\ ServiceInit
    /\ KeysIdle
    /\ ex_text \in ExtractTexts
    /\ ex_id = << >>
    /\ CalcIdle
    /\ ToolIdle

\* Both extractors are applied to the text.
ExtractBoth ==
    /\ ex_id = << >>
    /\ ex_id' = << ExtractInvoiceIdentifierFromText(ex_text),
                   ExtractInvoiceIdentifier(ex_text) >>
    /\ UNCHANGED << svcVars, envVars, graphVars, nextAsk, pc, callVars,
                    runVars, nShutdowns, kq, kk, ex_text, calcVars,
                    toolVars >>

NextExtract == ExtractBoth

SpecExtract == InitExtract /\ [][NextExtract]_vars

\* ------------------------------------------- calcular_vencimiento on its own
\* int() of a run of decimal digits, and str() of a natural number.
DigitVal(c) == (CHOOSE i \in DOMAIN DigitSeq : DigitSeq[i] = c) - 1
RECURSIVE NatOfDigits(_)
NatOfDigits(s) ==
    IF s = << >> THEN 0
    ELSE 10 * NatOfDigits(SubSeq(s, 1, Len(s) - 1)) + DigitVal(s[Len(s)])
RECURSIVE DigitsOfNat(_)
DigitsOfNat(n) ==
    IF n < 10 THEN << DigitSeq[n + 1] >>
    ELSE DigitsOfNat(n \div 10) \o << DigitSeq[(n % 10) + 1] >>
\* str(n) of an int
StrOfInt(n) == IF n < 0 THEN << "-" >> \o DigitsOfNat(-n) ELSE DigitsOfNat(n)
\* "%02d" % n
RECURSIVE ZeroPad(_, _)
ZeroPad(s, width) ==
    IF Len(s) >= width THEN s ELSE ZeroPad(<< "0" >> \o s, width)

\* str.strip()
RECURSIVE LStrip(_)
LStrip(s) ==
    IF s # << >> /\ IsSpace(s[1]) THEN LStrip(Tail(s)) ELSE s
RECURSIVE RStrip(_)
RStrip(s) ==
    IF s # << >> /\ IsSpace(s[Len(s)])
    THEN RStrip(SubSeq(s, 1, Len(s) - 1)) ELSE s
Strip(s) == RStrip(LStrip(s))

\* int(s) of a str: blanks around, an optional sign, then decimal digits
\* that single underscores may separate.  << TRUE, n >>, or << FALSE, 0 >>
\* where int raises ValueError.
IsIntDigits(s) ==
    /\ s # << >>
    /\ \A i \in DOMAIN s : IsDigit(s[i]) \/ s[i] = "_"
    /\ IsDigit(s[1]) /\ IsDigit(s[Len(s)])
    /\ \A i \in 1..(Len(s) - 1) : ~(s[i] = "_" /\ s[i + 1] = "_")
IntOfStr(s) ==
    LET t == Strip(s)
        signed == t # << >> /\ t[1] \in { "+", "-" }
        digits == IF signed THEN Tail(t) ELSE t
        n == NatOfDigits(SelectSeq(digits, IsDigit))
    IN  IF ~IsIntDigits(digits) THEN << FALSE, 0 >>
        ELSE IF signed /\ t[1] = "-" THEN << TRUE, -n >>
        ELSE << TRUE, n >>

\* ---- datetime.date
MinYear == 1
MaxYear == 9999
IsLeap(y) == y % 4 = 0 /\ (y % 100 # 0 \/ y % 400 = 0)
DaysInMonth(y, m) ==
    IF m = 2 THEN (IF IsLeap(y) THEN 29 ELSE 28)
    ELSE IF m \in { 4, 6, 9, 11 } THEN 30
    ELSE 31
\* date(y, m, d) raises ValueError unless:
IsDate(y, m, d) ==
    /\ y >= MinYear /\ y <= MaxYear
    /\ m >= 1 /\ m <= 12
    /\ d >= 1 /\ d <= DaysInMonth(y, m)
\* The days before 1 January of the year y, and before the first of the
\* month m of that year.
DaysBeforeYear(y) ==
    LET p == y - 1
    IN  p * 365 + (p \div 4) - (p \div 100) + (p \div 400)
RECURSIVE DaysBeforeMonth(_, _)
DaysBeforeMonth(y, m) ==
    IF m = 1 THEN 0
    ELSE DaysBeforeMonth(y, m - 1) + DaysInMonth(y, m - 1)
\* date.toordinal(): 1 January of the year 1 is day 1.
ToOrdinal(date) ==
    DaysBeforeYear(date[1]) + DaysBeforeMonth(date[1], date[2]) + date[3]
\* date.max.toordinal() and the greatest number of days of a timedelta
MaxOrdinal == 3652059
MaxDeltaDays == 999999999
\* date.fromordinal(n), for 1 <= n <= MaxOrdinal: the year is found from the
\* cycles of 400, 100, 4 and 1 years, then the month and the day.
RECURSIVE MonthOfDay(_, _, _)
MonthOfDay(y, m, n) ==
    IF n <= DaysInMonth(y, m) THEN << y, m, n >>
    ELSE MonthOfDay(y, m + 1, n - DaysInMonth(y, m))
FromOrdinal(n) ==
    LET n0 == n - 1
        n400 == n0 \div 146097
        r400 == n0 % 146097
        n100 == r400 \div 36524
        r100 == r400 % 36524
        n4 == r100 \div 1461
        r4 == r100 % 1461
        n1 == r4 \div 365
        r1 == r4 % 365
        year == n400 * 400 + 1 + n100 * 100 + n4 * 4 + n1
    IN  IF n1 = 4 \/ n100 = 4 THEN << year - 1, 12, 31 >>
        ELSE MonthOfDay(year, 1, r1 + 1)

\* ---- datetime.strptime
\* The directives %Y, %m and %d at position p of s: the length of what the
\* directive's regular expression takes there, 0 when it does not match.
\* %Y is \d\d\d\d.
YearLen(s, p) ==
    IF p + 3 <= Len(s) /\ \A i \in 0..3 : IsDigit(s[p + i]) THEN 4 ELSE 0
CharIn(s, p, chars) == p <= Len(s) /\ s[p] \in chars
\* %m is 1[0-2]|0[1-9]|[1-9].
MonthLen(s, p) ==
    IF CharIn(s, p, { "1" }) /\ CharIn(s, p + 1, { "0","1","2" }) THEN 2
    ELSE IF CharIn(s, p, { "0" }) /\ CharIn(s, p + 1, DigitSet \ { "0" })
    THEN 2
    ELSE IF CharIn(s, p, DigitSet \ { "0" }) THEN 1
    ELSE 0
\* %d is 3[0-1]|[1-2]\d|0[1-9]|[1-9]| [1-9].
DayLen(s, p) ==
    IF CharIn(s, p, { "3" }) /\ CharIn(s, p + 1, { "0","1" }) THEN 2
    ELSE IF CharIn(s, p, { "1","2" }) /\ CharIn(s, p + 1, DigitSet) THEN 2
    ELSE IF CharIn(s, p, { "0" }) /\ CharIn(s, p + 1, DigitSet \ { "0" })
    THEN 2
    ELSE IF CharIn(s, p, DigitSet \ { "0" }) THEN 1
    ELSE IF CharIn(s, p, { " " }) /\ CharIn(s, p + 1, DigitSet \ { "0" })
    THEN 2
    ELSE 0
DirectiveLen(directive, s, p) ==
    CASE directive = "Y" -> YearLen(s, p)
      [] directive = "m" -> MonthLen(s, p)
      [] directive = "d" -> DayLen(s, p)

\* What strptime has read so far: year, month and day.
NoFields == [Y |-> 0, m |-> 0, d |-> 0]

\* The format, a sequence of directives and literal characters, matched
\* against s from position p on; NoFields when it does not match or when
\* characters of s remain ("unconverted data remains").
RECURSIVE StrptimeFrom(_, _, _, _)
StrptimeFrom(formato, s, p, fields) ==
    IF formato = << >>
    THEN IF p = Len(s) + 1 THEN fields ELSE NoFields
    ELSE IF Head(formato) \in { "Y", "m", "d" }
    THEN LET n == DirectiveLen(Head(formato), s, p)
         IN  IF n = 0 THEN NoFields
             ELSE StrptimeFrom(Tail(formato), s, p + n,
                      [fields EXCEPT ![Head(formato)] =
                          NatOfDigits(SelectSeq(SubSeq(s, p, p + n - 1),
                                                IsDigit))])
    ELSE IF CharIn(s, p, { Head(formato) })
    THEN StrptimeFrom(Tail(formato), s, p + 1, fields)
    ELSE NoFields

\* datetime.strptime(s, formato).date(): the date, or NoDate where strptime
\* raises ValueError (no match, or no such day).
Strptime(s, formato) ==
    LET f == StrptimeFrom(formato, s, 1, NoFields)
    IN  IF IsDate(f.Y, f.m, f.d) THEN << f.Y, f.m, f.d >> ELSE NoDate

\* date.strftime("%Y-%m-%d"); %Y is not padded for the years before 1000
\* (glibc).
Strftime(date) ==
    DigitsOfNat(date[1]) \o << "-" >> \o ZeroPad(DigitsOfNat(date[2]), 2)
        \o << "-" >> \o ZeroPad(DigitsOfNat(date[3]), 2)

\* A variant of formatos_fecha whose second format is %m-%d-%Y.
FormatosMesPrimero ==
    << << "Y","-","m","-","d" >>, << "m","-","d","-","Y" >>,
       << "d","/","m","/","Y" >>, << "Y","/","m","/","d" >> >>

\* formatos_fecha: "%Y-%m-%d", "%d-%m-%Y", "%d/%m/%Y", "%Y/%m/%d"
FormatosFecha ==
    << << "Y","-","m","-","d" >>, << "d","-","m","-","Y" >>,
       << "d","/","m","/","Y" >>, << "Y","/","m","/","d" >> >>

\* for formato in formatos_fecha: the date of the first format that parses
\* s, NoDate when none does.
RECURSIVE FirstFormat(_, _, _)
FirstFormat(s, formatos, i) ==
    IF i > Len(formatos) THEN NoDate
    ELSE LET date == Strptime(s, formatos[i])
         IN  IF date # NoDate THEN date
             ELSE FirstFormat(s, formatos, i + 1)

\* ---- json.dumps(obj, ensure_ascii=False, indent=2) of a dict whose values
\* are str, int, bool or None.  A member is its key and its value.
JsonStr(key, s) == [key |-> key, t |-> "str", s |-> s, n |-> 0, b |-> FALSE]
JsonInt(key, n) == [key |-> key, t |-> "int", s |-> << >>, n |-> n, b |-> FALSE]
JsonBool(key, b) == [key |-> key, t |-> "bool", s |-> << >>, n |-> 0, b |-> b]
JsonNull(key) == [key |-> key, t |-> "null", s |-> << >>, n |-> 0, b |-> FALSE]

\* The concatenation of the texts of a sequence, by halves.
RECURSIVE Concat(_)
Concat(texts) ==
    IF texts = << >> THEN << >>
    ELSE IF Len(texts) = 1 THEN texts[1]
    ELSE Concat(SubSeq(texts, 1, Len(texts) \div 2))
             \o Concat(SubSeq(texts, (Len(texts) \div 2) + 1, Len(texts)))
\* The escapes of a string: the quote, the backslash and the newline.
JsonEscapeChar(c) ==
    CASE c = "\"" -> << "\\", "\"" >>
      [] c = "\\" -> << "\\", "\\" >>
      [] c = "\n" -> << "\\", "n" >>
      [] OTHER -> << c >>
JsonEscape(s) == Concat([i \in DOMAIN s |-> JsonEscapeChar(s[i])])
JsonQuote(s) == << "\"" >> \o JsonEscape(s) \o << "\"" >>
JsonValue(member) ==
    CASE member.t = "str" -> JsonQuote(member.s)
      [] member.t = "int" -> StrOfInt(member.n)
      [] member.t = "bool" ->
             IF member.b THEN << "t","r","u","e" >>
             ELSE << "f","a","l","s","e" >>
      [] member.t = "null" -> << "n","u","l","l" >>
\* The lines of the members, each indented by two blanks, with ",\n" between
\* them.
RECURSIVE JsonMembers(_)
JsonMembers(members) ==
    IF members = << >> THEN << >>
    ELSE << " ", " " >> \o JsonQuote(Head(members).key) \o << ":", " " >>
             \o JsonValue(Head(members))
             \o (IF Tail(members) = << >> THEN << >> ELSE << ",", "\n" >>)
             \o JsonMembers(Tail(members))
JsonDumps(members) ==
    IF members = << >> THEN << "{", "}" >>
    ELSE << "{", "\n" >> \o JsonMembers(members) \o << "\n", "}" >>

\* ---- calcular_vencimiento (the accents of the texts are dropped)
KeyFechaEmision == << "f","e","c","h","a","_","e","m","i","s","i","o","n" >>
KeyFechaVencimiento ==
    << "f","e","c","h","a","_","v","e","n","c","i","m","i","e","n","t",
           "o" >>
KeyVencida == << "v","e","n","c","i","d","a" >>
KeyDiasRestantes ==
    << "d","i","a","s","_","r","e","s","t","a","n","t","e","s" >>
KeyMensaje == << "m","e","n","s","a","j","e" >>
KeyError == << "e","r","r","o","r" >>

MsgNoParseA ==
    << "N","o"," ","s","e"," ","p","u","d","o"," ","p","a","r","s","e",
           "a","r"," ","l","a"," ","f","e","c","h","a"," ","'" >>
MsgNoParseB ==
    << "'","."," ","U","s","e"," ","f","o","r","m","a","t","o"," ","Y",
           "Y","Y","Y","-","M","M","-","D","D"," ","(","e","j",":"," ",
           "2","0","2","5","-","1","0","-","0","3",")" >>
MsgInvalidLiteral ==
    << "i","n","v","a","l","i","d"," ","l","i","t","e","r","a","l"," ",
           "f","o","r"," ","i","n","t","(",")"," ","w","i","t","h"," ",
           "b","a","s","e"," ","1","0",":"," " >>
MsgIntArgument ==
    << "i","n","t","(",")"," ","a","r","g","u","m","e","n","t"," ","m",
           "u","s","t"," ","b","e"," ","a"," ","s","t","r","i","n","g",
           ","," ","a"," ","b","y","t","e","s","-","l","i","k","e"," ",
           "o","b","j","e","c","t"," ","o","r"," ","a"," ","r","e","a",
           "l"," ","n","u","m","b","e","r",","," ","n","o","t"," ","'",
           "N","o","n","e","T","y","p","e","'" >>
MsgDeltaDaysA == << "d","a","y","s","=" >>
MsgDeltaDaysB ==
    << ";"," ","m","u","s","t"," ","h","a","v","e"," ","m","a","g","n",
           "i","t","u","d","e"," ","<","="," ","9","9","9","9","9","9",
           "9","9","9" >>
MsgDateRange ==
    << "d","a","t","e"," ","v","a","l","u","e"," ","o","u","t"," ","o",
           "f"," ","r","a","n","g","e" >>
MsgVencioA ==
    << "L","a"," ","f","a","c","t","u","r","a"," ","v","e","n","c","i",
           "o"," ","h","a","c","e"," " >>
MsgFaltanA == << "F","a","l","t","a","n"," " >>
MsgVencioB == << " ","d","i","a","s","." >>
MsgFaltanB ==
    << " ","d","i","a","s"," ","p","a","r","a"," ","e","l"," ","v","e",
           "n","c","i","m","i","e","n","t","o","." >>
MsgHuboError ==
    << "H","u","b","o"," ","u","n"," ","e","r","r","o","r"," ","a","l",
           " ","i","n","t","e","n","t","a","r"," ","c","a","l","c","u",
           "l","a","r"," ","l","a"," ","f","e","c","h","a"," ","d","e",
           " ","v","e","n","c","i","m","i","e","n","t","o",":"," " >>

\* repr(s) of a str without quote and backslash
PyRepr(s) == << "'" >> \o s \o << "'" >>

\* int(dias_credito): Returned(str(n)) is not used; the int is << TRUE, n >>
\* and an exception is << FALSE, message >>.
IntOf(value) ==
    CASE value.t = "int" -> << TRUE, value.n >>
      [] value.t = "str" ->
             IF IntOfStr(value.s)[1] THEN IntOfStr(value.s)
             ELSE << FALSE, MsgInvalidLiteral \o PyRepr(value.s) >>
      [] value.t = "none" -> << FALSE, MsgIntArgument >>

\* A variant of Vencida for which the day of the due date is overdue.
VencidaHoy(dias_restantes) == dias_restantes <= 0

\* vencida = dias_restantes < 0
Vencida(dias_restantes) == dias_restantes < 0

Mensaje(dias_restantes) ==
    IF Vencida(dias_restantes)
    THEN MsgVencioA \o StrOfInt(-dias_restantes) \o MsgVencioB
    ELSE MsgFaltanA \o StrOfInt(dias_restantes) \o MsgFaltanB

\* The dict result, given the two dates and today.
CalcResultOf(fecha_emision_dt, fecha_vencimiento, dias_restantes) ==
    << JsonStr(KeyFechaEmision, Strftime(fecha_emision_dt)),
       JsonStr(KeyFechaVencimiento, Strftime(fecha_vencimiento)),
       JsonBool(KeyVencida, Vencida(dias_restantes)),
       JsonInt(KeyDiasRestantes, dias_restantes),
       JsonStr(KeyMensaje, Mensaje(dias_restantes)),
       JsonNull(KeyError) >>

\* fecha_emision_dt + timedelta(days=dias) and what follows it, given the
\* ordinal of the date of issue.
CalcFromOrdinal(fecha_emision_dt, ordinal, dias, today) ==
    IF dias > MaxDeltaDays \/ -dias > MaxDeltaDays
    THEN Raised(MsgDeltaDaysA \o StrOfInt(dias) \o MsgDeltaDaysB)
    ELSE IF ordinal + dias < 1 \/ ordinal + dias > MaxOrdinal
    THEN Raised(MsgDateRange)
    ELSE Returned(JsonDumps(
             CalcResultOf(fecha_emision_dt, FromOrdinal(ordinal + dias),
                          ordinal + dias - ToOrdinal(today))))

\* The statements after the loop over the formats, given the date found.
CalcFromDate(fecha, fecha_emision_dt, dias, today) ==
    IF fecha_emision_dt = NoDate
    THEN Raised(MsgNoParseA \o fecha \o MsgNoParseB)
    ELSE IF ~dias[1] THEN Raised(dias[2])
    ELSE CalcFromOrdinal(fecha_emision_dt, ToOrdinal(fecha_emision_dt),
                         dias[2], today)

\* The body of the try statement.
CalcTry(fecha, value, today) ==
    CalcFromDate(fecha, FirstFormat(Strip(fecha), FormatosFecha, 1),
                 IntOf(value), today)

\* except Exception as e: the error result.
CalcErrorResult(fecha, e) ==
    << JsonStr(KeyFechaEmision, fecha),
       JsonNull(KeyFechaVencimiento),
       JsonNull(KeyVencida),
       JsonNull(KeyDiasRestantes),
       JsonStr(KeyMensaje, MsgHuboError \o e),
       JsonStr(KeyError, e) >>
CalcExcept(fecha, tried) ==
    IF tried.raised
    THEN Returned(JsonDumps(CalcErrorResult(fecha, tried.text)))
    ELSE tried

\* calcular_vencimiento(fecha_emision, dias_credito), called on the day today
CalcularVencimiento(fecha, value, today) ==
    CalcExcept(fecha, CalcTry(fecha, value, today))

\* The arguments and the days of the calls.
FechaTexts ==
    { << "2","0","2","5","-","0","1","-","0","1" >>,
      << "0","1","-","0","1","-","2","0","2","5" >>,
      << "0","3","-","1","0","-","2","0","2","5" >>,
      << " ","2","0","2","5","/","1","0","/","0","3"," " >>,
      << "3","/","1","0","/","2","0","2","5" >>,
      << "2","0","2","5","-","1","-","3" >>,
      << "2","0","2","5","-","1","0","-"," ","3" >>,
      << "2","0","2","4","-","0","2","-","2","9" >>,
      << "2","0","2","5","-","0","2","-","2","9" >>,
      << "3","1","-","0","2","-","2","0","2","5" >>,
      << "2","0","2","5","-","1","3","-","0","1" >>,
      << "2","0","2","5","-","1","0","-","0","3","1" >>,
      << "0","3","-","1","0","-","2","0","2","5","5" >>,
      << "0","0","0","0","-","0","1","-","0","1" >>,
      << "n","o","t","-","a","-","d","a","t","e" >>,
      << "e","l"," ","\"","3","\"" >>,
      << >> }
DiasValues ==
    { PyInt(30), PyInt(0), PyInt(-1), PyInt(365), PyInt(4000000),
      PyInt(-800000), PyInt(1000000000),
      PyStr(<< "3","0" >>), PyStr(<< " ","7"," " >>),
      PyStr(<< "1","_","0" >>), PyStr(<< "-","5" >>),
      PyStr(<< "a","b","c" >>), PyStr(<< "3",".","5" >>),
      PyStr(<< >>), PyNone }
HoyDates == { << 2025, 1, 31 >>, << 2025, 2, 1 >>, << 2024, 12, 25 >> }

\* A call is given its arguments, on some day.
InitCalc ==
    /\ ServiceInit
    /\ KeysIdle
    /\ ExtractIdle
    /\ fecha_emision \in FechaTexts
    /\ dias_credito \in DiasValues
    /\ hoy \in HoyDates
    /\ calc_result = NotCalled
    /\ ToolIdle

\* The call is made.
Calcular ==
    /\ calc_result = NotCalled
    /\ calc_result' = CalcularVencimiento(fecha_emision, dias_credito, hoy)
    /\ UNCHANGED << svcVars, envVars, graphVars, nextAsk, pc, callVars,
                    runVars, nShutdowns, kq, kk, extractVars, fecha_emision,
                    dias_credito, hoy, toolVars >>

NextCalc == Calcular

SpecCalc == InitCalc /\ [][NextCalc]_vars

\* ------------------------------------------- the HTTP tools on their own
\* ---- json.loads, for the texts of the model: an object whose keys are
\* distinct and whose values are strings, integers, true, false or null,
\* the empty array, or one such value alone.  A text of the model that is
\* not of this grammar is no JSON at all.
JsonObject(members) ==
    [t |-> "obj", members |-> members, v |-> JsonNull(<< >>)]
JsonArray == [t |-> "arr", members |-> << >>, v |-> JsonNull(<< >>)]
JsonScalar(v) == [t |-> v.t, members |-> << >>, v |-> v]
\* json.loads raises JSONDecodeError.
NotJson == [t |-> "invalid", members |-> << >>, v |-> JsonNull(<< >>)]

IsJsonSpace(c) == c \in { " ", "\t", "\n", "\r" }
RECURSIVE SkipSpace(_, _)
SkipSpace(s, p) ==
    IF p <= Len(s) /\ IsJsonSpace(s[p]) THEN SkipSpace(s, p + 1) ELSE p

\* What was read: a value and the position after it, or a failure.
Read(v, next) == [ok |-> TRUE, v |-> v, next |-> next]
NoRead == [ok |-> FALSE, v |-> JsonNull(<< >>), next |-> 0]

\* The number of backslashes that stand immediately before position i, none
\* of them before position lo.
BackslashesBefore(s, i, lo) ==
    CHOOSE k \in 0..(i - lo) :
        /\ \A h \in 1..k : s[i - h] = "\\"
        /\ (k = i - lo \/ s[i - k - 1] # "\\")
\* The character at i is escaped by a backslash before it.
IsEscaped(s, i, lo) == BackslashesBefore(s, i, lo) % 2 = 1
\* What the character at i of a string adds to its value: itself, nothing
\* for the backslash that starts an escape, and the character that the
\* escape stands for.
Unescaped(s, i, lo) ==
    IF IsEscaped(s, i, lo)
    THEN CASE s[i] = "n" -> << "\n" >>
           [] s[i] = "t" -> << "\t" >>
           [] s[i] = "r" -> << "\r" >>
           [] OTHER -> << s[i] >>
    ELSE IF s[i] = "\\" THEN << >>
    ELSE << s[i] >>
\* No control character stands in the string, and every escape is one of
\* \" \\ \/ \n \t \r.
IsStringBody(s, lo, hi) ==
    \A i \in lo..hi :
        /\ s[i] \notin { "\n", "\t", "\r" }
        /\ IsEscaped(s, i, lo) =>
               s[i] \in { "\"", "\\", "/", "n", "t", "r" }
\* The string whose characters start at p, after its opening quote: its
\* closing quote is the first quote that is not escaped.
ReadStringBody(s, p) ==
    LET closing == { q \in p..Len(s) : s[q] = "\"" /\ ~IsEscaped(s, q, p) }
    IN  IF closing = {} THEN NoRead
        ELSE LET q == CHOOSE c \in closing : \A d \in closing : c <= d
             IN  IF ~IsStringBody(s, p, q - 1) THEN NoRead
                 ELSE Read(JsonStr(<< >>,
                               Concat([i \in 1..(q - p) |->
                                          Unescaped(s, p + i - 1, p)])),
                           q + 1)

\* An integer at p whose digits start at q and are n: -?(0|[1-9]\d*), with
\* no fraction and no exponent after it.
ReadDigits(s, p, q, n) ==
    IF /\ n >= 1
       /\ (s[q] # "0" \/ n = 1)
       /\ ~CharIn(s, q + n, { ".", "e", "E" })
    THEN Read(JsonInt(<< >>, IF q > p
                             THEN -NatOfDigits(SubSeq(s, q, q + n - 1))
                             ELSE NatOfDigits(SubSeq(s, q, q + n - 1))),
              q + n)
    ELSE NoRead
ReadInt(s, p, q) == ReadDigits(s, p, q, RunLen(s, q, "digit"))

WordAt(s, p, word) ==
    p + Len(word) - 1 <= Len(s) /\ SubSeq(s, p, p + Len(word) - 1) = word

\* A string, an integer, true, false or null at p.
ReadScalar(s, p) ==
    IF p > Len(s) THEN NoRead
    ELSE IF s[p] = "\"" THEN ReadStringBody(s, p + 1)
    ELSE IF s[p] = "-" THEN ReadInt(s, p, p + 1)
    ELSE IF IsDigit(s[p]) THEN ReadInt(s, p, p)
    ELSE IF WordAt(s, p, << "t","r","u","e" >>)
    THEN Read(JsonBool(<< >>, TRUE), p + 4)
    ELSE IF WordAt(s, p, << "f","a","l","s","e" >>)
    THEN Read(JsonBool(<< >>, FALSE), p + 5)
    ELSE IF WordAt(s, p, << "n","u","l","l" >>)
    THEN Read(JsonNull(<< >>), p + 4)
    ELSE NoRead

\* The members of an object from the key at p on: acc holds the members read
\* before it.  The steps are: the key, the colon after it, the value, and
\* what follows the value.
RECURSIVE ReadMembers(_, _, _)
ReadAfterValue(s, p, acc) ==
    IF CharIn(s, p, { "}" }) THEN Read(acc, p + 1)
    ELSE IF CharIn(s, p, { "," })
    THEN ReadMembers(s, SkipSpace(s, p + 1), acc)
    ELSE NoRead
ReadValue(s, key, value, acc) ==
    IF ~value.ok THEN NoRead
    ELSE ReadAfterValue(s, SkipSpace(s, value.next),
                        Append(acc, [value.v EXCEPT !.key = key]))
ReadColon(s, key, p, acc) ==
    IF ~CharIn(s, p, { ":" }) THEN NoRead
    ELSE ReadValue(s, key, ReadScalar(s, SkipSpace(s, p + 1)), acc)
ReadKey(s, key, acc) ==
    IF ~key.ok THEN NoRead
    ELSE ReadColon(s, key.v.s, SkipSpace(s, key.next), acc)
ReadMembers(s, p, acc) ==
    IF ~CharIn(s, p, { "\"" }) THEN NoRead
    ELSE ReadKey(s, ReadStringBody(s, p + 1), acc)

\* The value read, if nothing but blanks follows it.
WholeText(s, read, value) ==
    IF read.ok /\ SkipSpace(s, read.next) = Len(s) + 1 THEN value
    ELSE NotJson
ObjectOf(s, read) == WholeText(s, read, JsonObject(read.v))
ScalarOf(s, read) == WholeText(s, read, JsonScalar(read.v))
\* The value that starts at p, the first character that is no blank; q is
\* the first such character after it.
LoadsAt(s, p, q) ==
    IF p > Len(s) THEN NotJson
    ELSE IF s[p] = "{"
    THEN IF CharIn(s, q, { "}" })
         THEN WholeText(s, Read(<< >>, q + 1), JsonObject(<< >>))
         ELSE ObjectOf(s, ReadMembers(s, q, << >>))
    ELSE IF s[p] = "["
    THEN IF CharIn(s, q, { "]" })
         THEN WholeText(s, Read(<< >>, q + 1), JsonArray)
         ELSE NotJson
    ELSE ScalarOf(s, ReadScalar(s, p))
JsonLoadsFrom(s, p) == LoadsAt(s, p, SkipSpace(s, p + 1))
\* json.loads(s), response.json()
JsonLoads(s) == JsonLoadsFrom(s, SkipSpace(s, 1))

\* json.dumps(obj, ensure_ascii=False) of a dict: one line.
RECURSIVE JsonMembersLine(_)
JsonMembersLine(members) ==
    IF members = << >> THEN << >>
    ELSE JsonQuote(Head(members).key) \o << ":", " " >>
             \o JsonValue(Head(members))
             \o (IF Tail(members) = << >> THEN << >> ELSE << ",", " " >>)
             \o JsonMembersLine(Tail(members))
JsonDumpsLine(members) == << "{" >> \o JsonMembersLine(members) \o << "}" >>

\* json.dumps(value, ensure_ascii=False, indent=2) of what json.loads gave
JsonDumpsValue(value) ==
    CASE value.t = "obj" -> JsonDumps(value.members)
      [] value.t = "arr" -> << "[", "]" >>
      [] OTHER -> JsonValue(value.v)

\* ---- mcp_server/custom_server.py (the accents of the texts are dropped)
MsgErrorHttp == << "E","r","r","o","r"," ","H","T","T","P"," " >>
MsgTimeout ==
    << "T","i","m","e","o","u","t"," ","a","l"," ","c","o","n","e","c",
           "t","a","r"," ","c","o","n"," ","e","l"," ","s","e","r","v",
           "i","c","i","o",":"," " >>
MsgConexion == << "E","r","r","o","r"," ","d","e"," ","c","o","n","e","x","i","o",
           "n",":"," " >>
MsgInesperado == << "E","r","r","o","r"," ","i","n","e","s","p","e","r","a","d","o",
           ":"," " >>
MsgJsonInvalido == << "J","S","O","N"," ","i","n","v","a","l","i","d","o",":"," " >>
KeySuccess == << "s","u","c","c","e","s","s" >>
KeyMessage == << "m","e","s","s","a","g","e" >>
MsgCompletada ==
    << "O","p","e","r","a","c","i","o","n"," ","c","o","m","p","l","e",
           "t","a","d","a"," ","e","x","i","t","o","s","a","m","e","n",
           "t","e" >>
KeyAnswer == << "a","n","s","w","e","r" >>
MsgSinAnswer ==
    << "E","r","r","o","r",":"," ","L","a"," ","r","e","s","p","u","e",
           "s","t","a"," ","d","e","l"," ","R","A","G"," ","n","o"," ",
           "c","o","n","t","i","e","n","e"," ","e","l"," ","c","a","m",
           "p","o"," ","'","a","n","s","w","e","r","'" >>
MsgHttpRag ==
    << "E","r","r","o","r"," ","H","T","T","P"," ","c","o","n","s","u",
           "l","t","a","n","d","o"," ","R","A","G",":"," " >>
MsgDatosFactura ==
    << "E","r","r","o","r"," ","o","b","t","e","n","i","e","n","d","o",
           " ","d","a","t","o","s"," ","d","e"," ","f","a","c","t","u",
           "r","a",":"," " >>
\* The messages of the TypeErrors of Python 3.11.
MsgArgumentOfType == << "a","r","g","u","m","e","n","t"," ","o","f"," ","t","y","p","e",
           " ","'" >>
MsgNotIterable == << "'"," ","i","s"," ","n","o","t"," ","i","t","e","r","a","b","l",
           "e" >>
MsgObjectOfType == << "o","b","j","e","c","t"," ","o","f"," ","t","y","p","e"," ","'" >>
MsgHasNoLen == << "'"," ","h","a","s"," ","n","o"," ","l","e","n","(",")" >>
MsgStringIndices ==
    << "s","t","r","i","n","g"," ","i","n","d","i","c","e","s"," ","m",
           "u","s","t"," ","b","e"," ","i","n","t","e","g","e","r","s",
           ","," ","n","o","t"," ","'","s","t","r","'" >>
\* type(value).__name__
TypeName(t) ==
    CASE t = "int" -> << "i","n","t" >>
      [] t = "bool" -> << "b","o","o","l" >>
      [] t = "null" -> << "N","o","n","e","T","y","p","e" >>

NoContent == 204
\* Response.is_success
IsSuccess(status) == status >= 200 /\ status <= 299

\* What _make_request does: it returns a value, or raises ValueError.
ReturnsValue(value) == [raised |-> FALSE, value |-> value, text |-> << >>]
RaisesValueError(text) == [raised |-> TRUE, value |-> NotJson, text |-> text]

\* return response.json(), given what json.loads makes of the body
ResponseJson(value, msg) ==
    IF value.t = "invalid" THEN RaisesValueError(MsgInesperado \o msg)
    ELSE ReturnsValue(value)

\* A variant of MakeRequest without the test for 204.
MakeRequestNo204(request) ==
    CASE request.kind = "timeout" -> RaisesValueError(MsgTimeout \o request.msg)
      [] request.kind = "request" ->
             RaisesValueError(MsgConexion \o request.msg)
      [] request.kind = "other" ->
             RaisesValueError(MsgInesperado \o request.msg)
      [] request.kind = "response" ->
             IF ~IsSuccess(request.status)
             THEN RaisesValueError(MsgErrorHttp \o StrOfInt(request.status)
                                       \o ColonSpace \o request.body)
             ELSE ResponseJson(JsonLoads(request.body), request.msg)

\* _make_request(method, url, **kwargs), given what the request does
MakeRequest(request) ==
    CASE request.kind = "timeout" -> RaisesValueError(MsgTimeout \o request.msg)
      [] request.kind = "request" ->
             RaisesValueError(MsgConexion \o request.msg)
      [] request.kind = "other" ->
             RaisesValueError(MsgInesperado \o request.msg)
      [] request.kind = "response" ->
             IF request.status = NoContent
             THEN ReturnsValue(JsonObject(
                      << JsonBool(KeySuccess, TRUE),
                         JsonStr(KeyMessage, MsgCompletada) >>))
             ELSE IF ~IsSuccess(request.status)
             THEN RaisesValueError(MsgErrorHttp \o StrOfInt(request.status)
                                       \o ColonSpace \o request.body)
             ELSE ResponseJson(JsonLoads(request.body), request.msg)

\* json.dumps({"error": text}, ensure_ascii=False)
ErrorJson(text) == JsonDumpsLine(<< JsonStr(KeyError, text) >>)

\* try: result = await _make_request(...); return json.dumps(result, ...)
\* except Exception as e: return json.dumps({"error": str(e)}, ...)
DumpOrError(result) ==
    IF result.raised THEN Returned(ErrorJson(result.text))
    ELSE Returned(JsonDumpsValue(result.value))

\* The tools without an argument data: list_*, get_*, delete_*, get_*_stats.
PlainTool(request) == DumpOrError(MakeRequest(request))

\* str(e) of the JSONDecodeError of json.loads(data), for the data of the
\* model.
DataBad == << "{","m","a","l" >>
DataGood ==
    << "{","\"","o","b","s","e","r","v","a","c","i","o","n","e","s","\"",
           ":"," ","\"","x","\"","}" >>
JsonErrorOf(data) ==
    CASE data = DataBad ->
        << "E","x","p","e","c","t","i","n","g"," ","p","r","o","p","e","r",
           "t","y"," ","n","a","m","e"," ","e","n","c","l","o","s","e",
           "d"," ","i","n"," ","d","o","u","b","l","e"," ","q","u","o",
           "t","e","s",":"," ","l","i","n","e"," ","1"," ","c","o","l",
           "u","m","n"," ","2"," ","(","c","h","a","r"," ","1",")" >>

\* create_* and update_*: payload = json.loads(data) comes first.
DataTool(data, request) ==
    IF JsonLoads(data).t = "invalid"
    THEN Returned(ErrorJson(MsgJsonInvalido \o JsonErrorOf(data)))
    ELSE DumpOrError(MakeRequest(request))

\* "answer" in text
Contains(s, word) ==
    \E p \in 1..(Len(s) - Len(word) + 1) : WordAt(s, p, word)
\* result["answer"] of a dict
RECURSIVE MemberOf(_, _)
MemberOf(members, key) ==
    IF Head(members).key = key THEN Head(members)
    ELSE MemberOf(Tail(members), key)
HasMember(members, key) == \E i \in DOMAIN members : members[i].key = key

\* invoice_text = result["answer"]; len(invoice_text); return invoice_text
RagAnswer(invoice_text) ==
    IF invoice_text.t = "str" THEN Returned(invoice_text.s)
    ELSE Raised(MsgObjectOfType \o TypeName(invoice_text.t) \o MsgHasNoLen)

\* The statements after result = response.json().
RagFromJson(result) ==
    CASE result.t = "obj" ->
             IF ~HasMember(result.members, KeyAnswer)
             THEN Returned(MsgSinAnswer)
             ELSE RagAnswer(MemberOf(result.members, KeyAnswer))
      [] result.t = "arr" -> Returned(MsgSinAnswer)
      [] result.t = "str" ->
             IF ~Contains(result.v.s, KeyAnswer) THEN Returned(MsgSinAnswer)
             ELSE Raised(MsgStringIndices)
      [] OTHER ->
             Raised(MsgArgumentOfType \o TypeName(result.t)
                        \o MsgNotIterable)

\* except Exception as e: return f"Error obteniendo datos de factura: ..."
RagExcept(tried) ==
    IF tried.raised THEN Returned(MsgDatosFactura \o tried.text)
    ELSE tried

\* A variant of RagGetInvoiceData that returns the body of a response that
\* is no JSON as it is.
RagGetInvoiceDataRaw(request) ==
    IF request.kind \in { "timeout", "request" }
    THEN Returned(MsgHttpRag \o request.msg)
    ELSE IF request.kind = "other"
    THEN Returned(MsgDatosFactura \o request.msg)
    ELSE IF ~IsSuccess(request.status)
    THEN Returned(MsgHttpRag \o request.msg)
    ELSE IF JsonLoads(request.body).t = "invalid"
    THEN Returned(request.body)
    ELSE RagExcept(RagFromJson(JsonLoads(request.body)))

\* rag_get_invoice_data(...), given what the request does: the exceptions of
\* httpx (raise_for_status included) are of the class HTTPError, the others
\* reach except Exception.
RagGetInvoiceData(request) ==
    IF request.kind \in { "timeout", "request" }
    THEN Returned(MsgHttpRag \o request.msg)
    ELSE IF request.kind = "other"
    THEN Returned(MsgDatosFactura \o request.msg)
    ELSE IF ~IsSuccess(request.status)
    THEN Returned(MsgHttpRag \o request.msg)
    ELSE IF JsonLoads(request.body).t = "invalid"
    THEN Returned(MsgDatosFactura \o request.msg)
    ELSE RagExcept(RagFromJson(JsonLoads(request.body)))

\* The tools, what they are given and what their request does.
PlainTools ==
    { "list_liquidaciones", "get_liquidacion", "delete_liquidacion",
      "get_liquidacion_stats", "list_provedores", "get_provedor",
      "delete_provedor", "get_provedor_stats" }
DataTools ==
    { "create_liquidacion", "update_liquidacion", "create_provedor",
      "update_provedor" }
RagTool == "rag_get_invoice_data"
HttpTools == PlainTools \cup DataTools \cup { RagTool }
DataTexts == { DataGood, DataBad }

StatusCodes == { 200, 201, 204, 301, 404, 500 }
Bodies ==
    { << "{","\"","i","d","\"",":"," ","7",","," ","\"","e","s","t","a","d",
           "o","\"",":"," ","1","}" >>,
      << "{","\"","a","n","s","w","e","r","\"",":"," ","\"","A","B","1","2",
           "3","4","5","6"," ","t","o","t","a","l"," ","9","\"","}" >>,
      << "{","\"","a","n","s","w","e","r","\"",":"," ","\"","E","r","r","o",
           "r"," ","i","n","t","e","r","n","o","\"","}" >>,
      << "{","\"","a","n","s","w","e","r","\"",":"," ","\"","\"","}" >>,
      << "{","\"","a","n","s","w","e","r","\"",":"," ","n","u","l","l",
           "}" >>,
      << "{","\"","a","n","s","w","e","r","\"",":"," ","5","}" >>,
      << "{","\"","d","e","t","a","i","l","\"",":"," ","\"","n","o","\"",
           "}" >>,
      << "{","\"","e","r","r","o","r","\"",":"," ","\"","x","\"","}" >>,
      << " ","{","\"","o","k","\"",":","t","r","u","e"," ",","," ","\"","m",
           "\"",":","\"","a","\\","\"","b","\\","\\","c","\\","n","d",
           "\"","}"," " >>,
      << "{","\"","a","\"",":"," ","1",",","}" >>,
      << "{","}" >>,
      << "[","]" >>,
      << "\"","l","a"," ","a","n","s","w","e","r","\"" >>,
      << "\"","t","e","x","t","o","\"" >>,
      << "n","u","l","l" >>,
      << "-","7" >>,
      << "f","a","l","s","e" >>,
      << "<","h","t","m","l",">" >>,
      << >> }
ExcTexts ==
    { << "t","i","m","e","d"," ","o","u","t" >>,
      << "f","a","l","l","o"," ","\"","x","\"","\n","f","i","n" >> }
HttpOutcomes ==
    { HttpResponse(status, body, msg) :
          status \in StatusCodes, body \in Bodies, msg \in ExcTexts }
        \cup { HttpRaises(kind, msg) :
                   kind \in { "timeout", "request", "other" },
                   msg \in ExcTexts }

\* A tool is called; what its request will do is fixed.
InitTools ==
    /\ ServiceInit
    /\ KeysIdle
    /\ ExtractIdle
    /\ CalcIdle
    /\ tool_name \in HttpTools
    /\ tool_data \in (IF tool_name \in DataTools THEN DataTexts
                      ELSE { << >> })
    /\ http \in HttpOutcomes
    /\ tool_result = NotCalled

\* The call is made.
CallTool ==
    /\ tool_result = NotCalled
    /\ tool_result' =
           IF tool_name = RagTool THEN RagGetInvoiceData(http)
           ELSE IF tool_name \in DataTools THEN DataTool(tool_data, http)
           ELSE PlainTool(http)
    /\ UNCHANGED << svcVars, envVars, graphVars, nextAsk, pc, callVars,
                    runVars, nShutdowns, kq, kk, extractVars, calcVars,
                    tool_name, tool_data, http >>

NextTools == CallTool

SpecTools == InitTools /\ [][NextTools]_vars

\* ------------------------------------------- one caller that also shuts down
\* The calls of ask_custom and of shutdown that one caller makes one after
\* the other.
MaxSeqCalls == 4

NextSeq ==
    \/ SetServerParameters
    \/ \E t \in Callers, q \in Questions : AskStartWithin(t, q, MaxSeqCalls)
    \/ \E t \in Callers : InitEnter(t)
    \/ \E t \in Callers : InitStdio(t)
    \/ \E t \in Callers : InitSession(t)
    \/ \E t \in Callers : InitHandshake(t)
    \/ \E t \in Callers : InitLoad(t)
    \/ \E t \in Callers : DecideConc(t)
    \/ \E t \in Callers : ToolsConc(t)
    \/ \E t \in Callers : AskReturn(t)
    \/ \E t \in Callers : AskRaise(t)
    \/ \E t \in Callers : ShutdownStartWithin(t, MaxSeqCalls)
    \/ \E t \in Callers : ShutdownEnter(t)
    \/ \E t \in Callers : ShutdownSession(t)
    \/ \E t \in Callers : ShutdownStdio(t)

SpecSeq == Init /\ [][NextSeq]_vars

\* ------------------------------------------- a model whose calls all return
\* model.ainvoke returns an AIMessage every time: a final answer, or tool
\* calls while it has requested fewer than MaxCalls of them.
LiveResponses(t) == { r \in ModelResponses(t) : r.kind = "ai" }

DecideLive(t) == DecideWith(t, LiveResponses(t))

\* tool.ainvoke returns every time it is awaited: no invocation raises.
LiveOutcomeSeqs(tool_calls) ==
    { os \in OutcomeSeqs(tool_calls) :
        \A i \in DOMAIN os : os[i].kind # "raise" }

ToolsLive(t) == ToolsWith(t, LiveOutcomeSeqs(Last(messages[t]).tool_calls))

NextLive ==
    \/ SetServerParameters
    \/ \E t \in Callers, q \in Questions : AskStart(t, q)
    \/ \E t \in Callers : InitEnter(t)
    \/ \E t \in Callers : InitStdio(t)
    \/ \E t \in Callers : InitSession(t)
    \/ \E t \in Callers : InitHandshake(t)
    \/ \E t \in Callers : InitLoad(t)
    \/ \E t \in Callers : DecideLive(t)
    \/ \E t \in Callers : ToolsLive(t)
    \/ \E t \in Callers : AskReturn(t)
    \/ \E t \in Callers : AskRaise(t)

\* The event loop resumes a coroutine whose awaited call has returned:
\* model.ainvoke in decide_node, the tools' ainvoke in tools_node, and
\* agent.ainvoke in ask_custom.  Resumes(t) is the change of position made
\* by DecideLive(t), ToolsLive(t) and AskReturn(t), which are enabled exactly
\* where it is: a node is due and has a step left, or the graph has ended.
Resumes(t) ==
    /\ pc[t] \in { "decide", "tools", "done" }
    /\ pc[t] # "done" => StepsLeft(Len(nodes[t]))
    /\ \E n \in { "decide", "tools", "done", "idle" } \ { pc[t] } :
          pc' = [pc EXCEPT ![t] = n]

FairLive == \A t \in Callers : WF_pc(Resumes(t))

SpecLive == Init /\ [][NextLive]_vars /\ FairLive

\* ------------------------------------------------------------- properties
HasCalls(m) == m.type = "ai" /\ m.tool_calls # << >>
\* The task is inside agent.ainvoke.
Running(t) == pc[t] \in { "decide", "tools", "done" }
\* The last node executed is tools_node, and the graph has not ended.
AfterTools(t) ==
    Running(t) /\ nodes[t] # << >> /\ Last(nodes[t]) = "tools"
\* The position of the last AIMessage of a list that has one.
LastAI(msgs) ==
    CHOOSE k \in DOMAIN msgs :
        msgs[k].type = "ai" /\ \A j \in DOMAIN msgs : j > k => msgs[j].type # "ai"
HasAI(msgs) == \E k \in DOMAIN msgs : msgs[k].type = "ai"
\* A step that is an execution of decide_node / of tools_node by t.
DecideStep(t) == nodes'[t] = Append(nodes[t], "decide")
ActStep(t) == nodes'[t] = Append(nodes[t], "tools")
\* The contextual note of decide_node, as it appears in a prompt.
IsNote(m) == m.type = "human" /\ StartsWith(m.content, ContextPrefix)

\* C1: after decide_node has appended the response, the next node is
\* tools_node exactly when the response has tool calls and the graph ends
\* exactly when it has none; the graph ends only after decide_node, never
\* right after tools_node.
C1_DecideBranches ==
    \A t \in Tasks :
        (Running(t) /\ nodes[t] # << >>) =>
            /\ (Last(nodes[t]) = "decide") =>
                   /\ pc[t] = "tools" <=> HasCalls(Last(messages[t]))
                   /\ pc[t] = "done" <=> ~HasCalls(Last(messages[t]))
            /\ (pc[t] = "done") => (Last(nodes[t]) = "decide")

\* C1: a run has ended after decide, tools, decide.
C1_Witness ==
    \E t \in Tasks :
        pc[t] = "done" /\ nodes[t] = << "decide", "tools", "decide" >>

\* C2: the nodes executed within one ask are decide (tools decide)*: the
\* first is decide, tools_node runs only after a decide_node and is followed
\* by decide_node, and the model has been invoked once per decide_node.
C2_Alternation ==
    \A t \in Tasks :
        /\ \A i \in DOMAIN nodes[t] :
              nodes[t][i] = IF i % 2 = 1 THEN "decide" ELSE "tools"
        /\ modelCalls[t] =
              Cardinality({ i \in DOMAIN nodes[t] : nodes[t][i] = "decide" })
        /\ (Running(t) /\ nodes[t] = << >>) => (pc[t] = "decide")
        /\ AfterTools(t) => (pc[t] = "decide")
        /\ (pc[t] = "tools") =>
              (nodes[t] # << >> /\ Last(nodes[t]) = "decide")

\* C2: a second tools_node is about to run.
C2_Witness ==
    \E t \in Tasks :
        pc[t] = "tools" /\ nodes[t] = << "decide", "tools", "decide" >>

\* C3: after tools_node, the messages that follow the last AIMessage are one
\* ToolMessage per tool call, with the calls' ids in the order of the calls,
\* and the tools were invoked in the order of the calls.
C3_ResultsInRequestOrder ==
    \A t \in Tasks :
        AfterTools(t) =>
            /\ HasAI(messages[t])
            /\ LET msgs == messages[t]
                   k == LastAI(msgs)
                   calls == msgs[k].tool_calls
                   known == SelectSeq(calls,
                                      LAMBDA c : c.name \in ToolsByName)
               IN  /\ Len(msgs) = k + Len(calls)
                   /\ \A i \in DOMAIN calls :
                         /\ msgs[k + i].type = "tool"
                         /\ msgs[k + i].tool_call_id = calls[i].id
                   /\ invoked[t] = [i \in DOMAIN known |-> known[i].id]

\* C3: tools_node has run two calls of which the first raised and the
\* second returned.
C3_Witness ==
    \E t \in Tasks :
        /\ AfterTools(t)
        /\ Len(outs[t]) = 2
        /\ outs[t][1].kind = "raise"
        /\ outs[t][2].kind = "str"
        /\ Len(invoked[t]) = 2

\* C4: every ToolMessage follows an AIMessage with tool calls, with only
\* ToolMessages in between, and its tool_call_id is the id of one of that
\* AIMessage's calls.
C4_ToolResultsLinked ==
    \A t \in Tasks :
        \A j \in DOMAIN messages[t] :
            (messages[t][j].type = "tool") =>
                \E k \in 1..(j - 1) :
                    /\ HasCalls(messages[t][k])
                    /\ \A m \in (k + 1)..(j - 1) : messages[t][m].type = "tool"
                    /\ \E c \in DOMAIN messages[t][k].tool_calls :
                          messages[t][k].tool_calls[c].id
                              = messages[t][j].tool_call_id

\* C4: a conversation with the results of two rounds of tool calls.
C4_Witness ==
    \E t \in Tasks :
        /\ nodes[t] = << "decide", "tools", "decide", "tools" >>
        /\ Last(messages[t]).type = "tool"

\* The ids of the messages of a list are pairwise different.
DistinctIds(msgs) ==
    \A i, j \in DOMAIN msgs : (msgs[i].id = msgs[j].id) => (i = j)

\* C5: decide_node extends the messages by exactly one AIMessage (by none
\* when it raises), tools_node by exactly one ToolMessage per tool call of
\* the last AIMessage; the messages before stay as they are, in their order,
\* and none is there twice.
C5_AppendOnly ==
    [][\A t \in Tasks :
          /\ DecideStep(t) =>
                IF pc'[t] = "failed" THEN messages'[t] = messages[t]
                ELSE /\ Len(messages'[t]) = Len(messages[t]) + 1
                     /\ SubSeq(messages'[t], 1, Len(messages[t]))
                            = messages[t]
                     /\ Last(messages'[t]).type = "ai"
                     /\ DistinctIds(messages'[t])
          /\ ActStep(t) =>
                /\ Len(messages'[t]) =
                       Len(messages[t]) + Len(Last(messages[t]).tool_calls)
                /\ SubSeq(messages'[t], 1, Len(messages[t])) = messages[t]
                /\ \A j \in (Len(messages[t]) + 1)..Len(messages'[t]) :
                       messages'[t][j].type = "tool"
                /\ DistinctIds(messages'[t])
      ]_vars

\* C5: decide_node has run on a conversation of several messages.
C5_Witness ==
    \E t \in Tasks :
        /\ nodes[t] = << "decide", "tools", "decide" >>
        /\ Len(messages[t]) = 5
        /\ pc[t] # "failed"

\* C6: after tools_node, a call of an unknown tool and a call whose
\* invocation raised each have a ToolMessage whose content starts with
\* "Error"; every call of a known tool was invoked, whatever the calls
\* before it did; and decide_node is next.
C6_ToolFailuresAreData ==
    \A t \in Tasks :
        AfterTools(t) =>
            /\ pc[t] = "decide"
            /\ HasAI(messages[t])
            /\ LET msgs == messages[t]
                   k == LastAI(msgs)
                   calls == msgs[k].tool_calls
               IN  /\ Len(outs[t]) = Len(calls)
                   /\ Len(msgs) = k + Len(calls)
                   /\ \A i \in DOMAIN calls :
                         (calls[i].name \notin ToolsByName
                              \/ outs[t][i].kind = "raise") =>
                             /\ msgs[k + i].type = "tool"
                             /\ msgs[k + i].tool_call_id = calls[i].id
                             /\ StartsWith(msgs[k + i].content, ErrorPrefix)
                   /\ \A i \in DOMAIN calls :
                         (calls[i].name \in ToolsByName) =>
                             \E n \in DOMAIN invoked[t] :
                                 invoked[t][n] = calls[i].id

\* C6: tools_node has run a call of an unknown tool followed by a call of a
\* known tool, which was invoked and returned.
C6_Witness ==
    \E t \in Tasks :
        /\ AfterTools(t)
        /\ Len(outs[t]) = 2
        /\ outs[t][1].kind = "none"
        /\ outs[t][2].kind = "str"
        /\ invoked[t] # << >>
        /\ pc[t] = "decide"

\* C7: tools_node leaves rag_invoice holding the result of the last call of
\* rag_get_invoice_data that returned a string not starting with "Error";
\* when no call did, rag_invoice is what it was.
C7_InvoiceCache ==
    [][\A t \in Tasks :
          ActStep(t) =>
              LET calls == Last(messages[t]).tool_calls
                  good == { i \in DOMAIN calls :
                              /\ calls[i].name = RagName
                              /\ outs'[t][i].kind = "str"
                              /\ ~StartsWith(outs'[t][i].text, ErrorPrefix) }
              IN  IF good = {} THEN rag_invoice'[t] = rag_invoice[t]
                  ELSE LET i == CHOOSE x \in good : \A y \in good : y <= x
                       IN  /\ rag_invoice'[t].present
                           /\ rag_invoice'[t].raw_text = outs'[t][i].text
      ]_vars

\* C7: tools_node has run two calls of rag_get_invoice_data, the first
\* returning an invoice and the second an "Error" string, and the invoice
\* of the first is held.
C7_Witness ==
    \E t \in Tasks :
        /\ AfterTools(t)
        /\ Len(outs[t]) = 2
        /\ outs[t][1] = Outcome("str", PayloadCD)
        /\ outs[t][2] = Outcome("str", PayloadError)
        /\ rag_invoice[t] = Invoice(PayloadCD)

\* C8: once decide_node has applied the rule for a different invoice,
\* rag_invoice is empty, and stays so until tools_node stores an invoice.
C8_ClearedStaysEmpty ==
    \A t \in Tasks : cleared[t] => ~rag_invoice[t].present

\* C9: the prompt of decide_node is the system message, then the messages
\* of the state, then the contextual note exactly when rag_invoice holds a
\* non-empty text that the rule for a different invoice does not discard;
\* the note is no message of the state.
C9_PromptNote ==
    [][\A t \in Tasks :
          DecideStep(t) =>
              LET rag == rag_invoice[t]
                  kept == /\ rag.present
                          /\ rag.raw_text # << >>
                          /\ ~DifferentInvoice(messages[t], rag)
                  body == SubSeq(prompt'[t], 2, Len(prompt'[t]))
              IN  /\ prompt'[t] # << >>
                  /\ prompt'[t][1].type = "system"
                  /\ IF kept
                     THEN /\ body # << >>
                          /\ IsNote(Last(body))
                          /\ SubSeq(body, 1, Len(body) - 1) = messages[t]
                     ELSE body = messages[t]
                  /\ \A j \in DOMAIN messages'[t] : ~IsNote(messages'[t][j])
      ]_vars

\* C9: a prompt that ends with the contextual note.
C9_Witness ==
    \E t \in Tasks :
        /\ prompt[t] # << >>
        /\ IsNote(Last(prompt[t]))
        /\ rag_invoice[t].present

\* C10: agent.ainvoke starts at decide_node with one message, the
\* HumanMessage of the question, and with no rag_invoice.
C10_FreshStart ==
    \A t \in Tasks :
        (Running(t) /\ nodes[t] = << >>) =>
            /\ pc[t] = "decide"
            /\ Len(messages[t]) = 1
            /\ messages[t][1].type = "human"
            /\ messages[t][1].content = question[t]
            /\ ~rag_invoice[t].present

\* C10: a second ask starts under the thread id of the first.
C10_Witness ==
    \E t \in Tasks :
        /\ pc[t] = "decide"
        /\ nodes[t] = << >>
        /\ Len(threadLog) = 2
        /\ threadLog[1] = threadLog[2]

\* C12: when the graph has ended, the last message is an AIMessage without
\* tool calls, and ask_custom returns that message's content; the messages
\* are never empty then, so the fallback string is returned only if it is
\* that content.
C12_FinalAnswer ==
    [][\A t \in Tasks :
          (pc[t] = "done") =>
              /\ messages[t] # << >>
              /\ Last(messages[t]).type = "ai"
              /\ Last(messages[t]).tool_calls = << >>
              /\ (pc'[t] # "done") =>
                    /\ pc'[t] = "idle"
                    /\ outcome'[t] = "returned"
                    /\ answer'[t] = Last(messages[t]).content
                    /\ (answer'[t] = NoAnswer) =>
                           (Last(messages[t]).content = NoAnswer)
      ]_vars

\* C12: a call has returned the content of the model's final AIMessage.
C12_Witness ==
    \E t \in Tasks :
        /\ pc[t] = "idle"
        /\ outcome[t] = "returned"
        /\ answer[t] = AnswerOk
        /\ nextAsk > 0

\* C14: when model.ainvoke returns something that is no AIMessage,
\* decide_node raises: the messages stay as they were, the call then only
\* raises to its caller, and in between no node runs and the model is not
\* invoked again.
C14_NonAIResponseFails ==
    [][\A t \in Tasks :
          /\ (DecideStep(t) /\ response'[t] = "other") =>
                /\ pc'[t] = "failed"
                /\ messages'[t] = messages[t]
          /\ (pc[t] = "failed" /\ response[t] = "other") =>
                /\ ~DecideStep(t)
                /\ ~ActStep(t)
                /\ modelCalls'[t] <= modelCalls[t]
                /\ (pc'[t] # "failed") =>
                       (pc'[t] = "idle" /\ outcome'[t] = "raised")
      ]_vars

\* C14: the model has returned something that is no AIMessage at the
\* second decide_node of a call.
C14_Witness ==
    \E t \in Tasks :
        /\ pc[t] = "failed"
        /\ response[t] = "other"
        /\ nodes[t] = << "decide", "tools", "decide" >>

\* A step by which the task enters the graph.
EnterStep(t) == runConn[t] = 0 /\ runConn'[t] # 0

\* C15: with no shutdown, nothing is connected before the first ask_custom
\* call; at most one session is ever entered; once the agent is built, the
\* session and the agent stay and no transport is created any more; and
\* every call that enters the graph runs with that one agent.
C15_LazyAndReused ==
    [][/\ (nextAsk = 0) => (nConn = 0 /\ session = 0 /\ agent = 0)
       /\ Cardinality(openSessions) <= 1
       /\ (agent # 0) =>
             /\ openSessions = { agent }
             /\ ready = { agent }
             /\ agent' = agent
             /\ session' = session
             /\ nConn' = nConn
       /\ \A t \in Tasks :
             EnterStep(t) =>
                 /\ runConn'[t] = agent'
                 /\ runConn'[t] \in ready'
                 /\ (agent # 0) => (runConn'[t] = agent)
      ]_vars

\* C15: the second of two calls that entered the graph runs with the agent
\* of the only connection made.
C15_Witness ==
    \E t \in Tasks :
        /\ askNo[t] = 2
        /\ Running(t)
        /\ Len(threadLog) = 2
        /\ nConn = 1
        /\ runConn[t] = agent

\* C18: a call that is in initialize() while no agent is built, with the
\* server parameters set, attempts establishment: once it has the lock it
\* creates a transport.
C18_RetriesEstablishment ==
    [][\A t \in Tasks :
          (/\ pc[t] = "init_lock"
           /\ pc'[t] # "init_lock"
           /\ server_parameters
           /\ agent = 0) =>
              /\ pc'[t] = "init_stdio"
              /\ nConn' = nConn + 1
      ]_vars

\* C17: while a call runs the graph (it is at decide_node or tools_node),
\* the session its agent's tools work through is open, and no shutdown is
\* in the middle of closing it.
C17_NoReleaseWhileRunning ==
    \A t \in Tasks :
        (pc[t] \in { "decide", "tools" }) =>
            /\ runConn[t] \in openSessions
            /\ \A u \in Tasks :
                  (pc[u] = "sd_session") => (session # runConn[t])

\* The positions of a task inside initialize().
InitPcs == { "init_lock", "init_stdio", "init_session", "init_handshake",
             "init_load" }

\* A step by which initialize() returns to ask_custom of t without raising:
\* it found a session and did nothing, or it built the agent.
PastInit(t) ==
    /\ pc[t] \in InitPcs
    /\ pc'[t] \notin InitPcs
    /\ \/ pc'[t] = "decide"
       \/ pc[t] = "init_lock" /\ session # 0

\* C16: while shutdown has not been called, at most one session is ever
\* entered, whatever the interleaving of the calls, and every call for
\* which initialize() returns enters the graph with a built agent whose
\* session is open and has completed its handshake.
C16_OneConnectionAllReady ==
    [][(nShutdowns' = 0) =>
          /\ Cardinality(openSessions') <= 1
          /\ \A t \in Tasks :
                PastInit(t) =>
                    /\ pc'[t] = "decide"
                    /\ agent' # 0
                    /\ runConn'[t] = agent'
                    /\ agent' \in ready' \cap openSessions'
      ]_vars

\* C11: whatever the interleaving of the calls, a contextual note in the
\* prompt of decide_node is the note for the content of a ToolMessage that
\* a tools_node of the same call appended and whose payload that call
\* holds in rag_invoice; all messages of a running call were created in
\* that call; and a step that changes the messages or the rag_invoice of
\* one call leaves those of every other call as they are, also when both
\* calls have the same thread id.
C11_Isolation ==
    [][\A t \in Tasks :
          /\ (DecideStep(t) /\ IsNote(Last(prompt'[t]))) =>
                \E j \in DOMAIN messages[t] :
                    /\ messages[t][j].type = "tool"
                    /\ messages[t][j].id[1] = askNo[t]
                    /\ rag_invoice[t].raw_text = messages[t][j].content
                    /\ Last(prompt'[t]) = ContextNote(messages[t][j].content)
          /\ \A j \in DOMAIN messages'[t] :
                messages'[t][j].id[1] = askNo'[t]
          /\ (messages'[t] # messages[t] \/ rag_invoice'[t] # rag_invoice[t])
                => \A u \in Tasks \ { t } :
                       /\ messages'[u] = messages[u]
                       /\ rag_invoice'[u] = rag_invoice[u]
                       /\ prompt'[u] = prompt[u]
      ]_vars

\* C11: two calls with the same question, hence the same thread id, run at
\* the same time; one has the note for its payload in its prompt while the
\* other holds another payload.
C11_Witness ==
    \E t, u \in Tasks :
        /\ t # u
        /\ question[t] = question[u]
        /\ pc[t] \in { "decide", "tools", "done" }
        /\ pc[u] \in { "decide", "tools", "done" }
        /\ prompt[t] # << >>
        /\ IsNote(Last(prompt[t]))
        /\ rag_invoice[t].raw_text = PayloadAB
        /\ rag_invoice[u].raw_text = PayloadCD

\* The DECIDE-to-ACT round trips of a run: the executions of tools_node.
RoundTrips(t) ==
    Cardinality({ i \in DOMAIN nodes[t] : nodes[t][i] = "tools" })

\* C13, as claimed: nothing caps the cycle; once the model has requested a
\* tool call tools_node runs and decide_node follows, however many round
\* trips came before, and the graph ends only on a response without tool
\* calls.
C13_NoIterationCap ==
    [][\A t \in Tasks :
          /\ (pc[t] = "tools") => (pc'[t] \in { "tools", "decide" })
          /\ (pc'[t] = "done" /\ pc[t] # "done") =>
                ~HasCalls(Last(messages'[t]))
      ]_vars

\* C13, amended: the cycle is cut by the recursion limit of agent.ainvoke
\* and by nothing else: a run executes at most RecursionLimit nodes, a due
\* tools_node is replaced by the failure of the call only when that many
\* nodes have run, and the graph ends only on a response without tool
\* calls.
C13_CappedByRecursionLimit ==
    [][\A t \in Tasks :
          /\ Len(nodes'[t]) <= RecursionLimit
          /\ 2 * RoundTrips(t) < RecursionLimit
          /\ (pc[t] = "tools" /\ pc'[t] \notin { "tools", "decide" }) =>
                /\ Len(nodes[t]) = RecursionLimit
                /\ pc'[t] = "failed"
                /\ messages'[t] = messages[t]
          /\ (pc'[t] = "done" /\ pc[t] # "done") =>
                ~HasCalls(Last(messages'[t]))
      ]_vars

\* C13: the model has requested a tool call at every decide_node, and the
\* call has failed after RecursionLimit nodes.
C13_Witness ==
    \E t \in Tasks :
        /\ pc[t] = "failed"
        /\ Len(nodes[t]) = RecursionLimit
        /\ HasCalls(Last(messages[t]))
        /\ 2 * RoundTrips(t) + 1 = RecursionLimit

\* The identifiers a question mentions: what any pattern of the service
\* matches at any position of it.
MentionedIn(q) ==
    { SubSeq(q, g[1], g[2]) :
        g \in { PatternGroup(ServicePatterns[i], q, p) :
                  i \in DOMAIN ServicePatterns, p \in 1..Len(q) }
              \ { << 0, 0 >> } }

\* Two identifiers are the same when they differ in case only.
SameIdentifier(a, b) == Upper(a) = Upper(b)

\* C19, as claimed: two questions that mention the same identifier have
\* the same thread id, whatever else they contain.
C19_SameIdSameKey ==
    (kk # << >>) =>
        ((\E a \in MentionedIn(kq[1]), b \in MentionedIn(kq[2]) :
              SameIdentifier(a, b))
            => (kk[1] = kk[2]))

\* C19, amended: two questions in which _extract_invoice_identifier finds
\* the same identifier, which is the one of the first pattern that matches
\* and of its leftmost match, have the same thread id, whatever else they
\* contain.
C19_SameFirstIdSameKey ==
    (kk # << >>) =>
        ((/\ ExtractInvoiceIdentifier(kq[1]) # NoText
          /\ ExtractInvoiceIdentifier(kq[2]) # NoText
          /\ SameIdentifier(ExtractInvoiceIdentifier(kq[1]),
                            ExtractInvoiceIdentifier(kq[2])))
            => (kk[1] = kk[2]))

\* C19: the thread ids of a question with F-12 and of another question
\* with f-12 have been derived.
C19_Witness ==
    /\ kk # << >>
    /\ kq = << QGuion, QFacturaGuion >>
    /\ kk[1] = kk[2]
    /\ kk[1] # << >>

\* C20: two questions in which _extract_invoice_identifier finds
\* identifiers that differ by more than case have different thread ids.
C20_DifferentIdsDifferentKeys ==
    (kk # << >>) =>
        LET a == ExtractInvoiceIdentifier(kq[1])
            b == ExtractInvoiceIdentifier(kq[2])
        IN  (a # NoText /\ b # NoText /\ ~SameIdentifier(a, b))
                => (kk[1] # kk[2])

\* C20: the thread ids of a question with F-12 and of one with F12 have
\* been derived.
C20_Witness ==
    /\ kk # << >>
    /\ kq = << QGuion, QSinGuion >>
    /\ kk[1] # kk[2]

\* ---------------------------------------------------------------- C21
HexDigits ==
    { "0","1","2","3","4","5","6","7","8","9","a","b","c","d","e","f" }
HashLen == 8
\* The key that the contract gives a question whose identifier is id: the
\* prefix "invoice_", then the identifier character by character, in lower
\* case and with "_" for "-".
IsInvoiceKey(key, id) ==
    /\ Len(key) = Len(InvoicePrefix) + Len(id)
    /\ SubSeq(key, 1, Len(InvoicePrefix)) = InvoicePrefix
    /\ \A j \in DOMAIN id :
           key[Len(InvoicePrefix) + j] =
               IF id[j] = "-" THEN "_" ELSE Lower(<< id[j] >>)[1]
\* The key of a question without identifier: "query_", then 8 hex digits.
IsQueryKey(key) ==
    /\ Len(key) = Len(QueryPrefix) + HashLen
    /\ SubSeq(key, 1, Len(QueryPrefix)) = QueryPrefix
    /\ \A j \in 1..HashLen : key[Len(QueryPrefix) + j] \in HexDigits
\* The step that derives the keys of the two questions.
KeysStep == kk = << >> /\ kk' # << >>

\* C21: the key of a question is "invoice_" followed by the identifier found
\* in it, in lower case and with every hyphen replaced by an underscore, and
\* "query_" followed by 8 hexadecimal digits when no identifier is found; two
\* equal questions get equal keys; and deriving a key changes nothing of the
\* service.
C21_KeyIsPureFunction ==
    [][KeysStep =>
         /\ \A i \in DOMAIN kq :
                LET id == ExtractInvoiceIdentifier(kq[i])
                IN  IF id # NoText THEN IsInvoiceKey(kk'[i], id)
                    ELSE IsQueryKey(kk'[i])
         /\ kq[1] = kq[2] => kk'[1] = kk'[2]
         /\ UNCHANGED << svcVars, envVars, graphVars, nextAsk, pc, callVars,
                         runVars, nShutdowns, kq >>]_vars
\* Keys were derived for a question with a hyphenated identifier in upper
\* case and for a question without identifier.
C21_Witness ==
    /\ kq = << QGuion, QHola >>
    /\ kk = << InvoicePrefix \o << "f","_","1","2" >>,
               QueryPrefix \o << "4","d","1","8","6","3","2","1" >> >>

\* ---------------------------------------------------------------- C22
\* The patterns of the contract, highest priority first.
PriorityPatterns ==
    << "letters_digits", "letters_hyphen_digits", "factura", "cufe" >>
\* The positions of s where the pattern matches.
MatchesOf(pattern, s) ==
    { p \in 1..Len(s) : PatternGroup(pattern, s, p)[1] > 0 }
\* found is what the contract makes of s: the group of the leftmost match of
\* the first pattern that matches anywhere in s, literally as in s, and
\* nothing when no pattern matches.
IsPriorityMatch(found, s) ==
    LET matching == { i \in DOMAIN PriorityPatterns :
                          MatchesOf(PriorityPatterns[i], s) # {} }
    IN  IF matching = {} THEN found = NoText
        ELSE LET i == CHOOSE j \in matching : \A h \in matching : j <= h
                 hits == MatchesOf(PriorityPatterns[i], s)
                 p == CHOOSE q \in hits : \A r \in hits : q <= r
                 g == PatternGroup(PriorityPatterns[i], s, p)
             IN  found = SubSeq(s, g[1], g[2])

FieldOf(text, key) ==
    LET needle == << "\n", " ", " " >> \o JsonQuote(key) \o << ":", " " >>
        starts == { p \in 1..(Len(text) - Len(needle)) :
                        SubSeq(text, p, p + Len(needle) - 1) = needle }
    IN  IF starts = {} THEN << >>
        ELSE LET v == (CHOOSE p \in starts : TRUE) + Len(needle)
                 e == CHOOSE q \in v..Len(text) :
                          /\ text[q] = "\n"
                          /\ \A r \in v..(q - 1) : text[r] # "\n"
             IN  IF text[e - 1] = "," THEN SubSeq(text, v, e - 2)
                 ELSE SubSeq(text, v, e - 1)
JsonNullText == << "n","u","l","l" >>
JsonTrueText == << "t","r","u","e" >>
JsonFalseText == << "f","a","l","s","e" >>
\* The value is a date written "YYYY-MM-DD", in quotes.
IsIsoDate(value) ==
    /\ Len(value) = 12
    /\ value[1] = "\"" /\ value[12] = "\""
    /\ value[6] = "-" /\ value[9] = "-"
    /\ \A i \in { 2, 3, 4, 5, 7, 8, 10, 11 } : IsDigit(value[i])
IsoDate(value) ==
    << NatOfDigits(SubSeq(value, 2, 5)), NatOfDigits(SubSeq(value, 7, 8)),
       NatOfDigits(SubSeq(value, 10, 11)) >>
\* The value is a decimal number, with or without sign.
IsIntText(value) ==
    LET digits == IF value # << >> /\ value[1] = "-" THEN Tail(value)
                  ELSE value
    IN  digits # << >> /\ \A i \in DOMAIN digits : IsDigit(digits[i])
IntText(value) ==
    IF value[1] = "-" THEN -NatOfDigits(Tail(value)) ELSE NatOfDigits(value)
\* The calendar, counted: the number of the day of a date, 1 January of the
\* year 1 being day 1, from the number of leap years before its year and
\* the lengths of the months before its month.
LeapYear(y) == (y % 4 = 0 /\ y % 100 # 0) \/ y % 400 = 0
MonthDays == << 31, 28, 31, 30, 31, 30, 31, 31, 30, 31, 30, 31 >>
RECURSIVE MonthsBefore(_, _)
MonthsBefore(y, m) ==
    IF m <= 1 THEN 0
    ELSE MonthsBefore(y, m - 1) + MonthDays[m - 1]
             + (IF m - 1 = 2 /\ LeapYear(y) THEN 1 ELSE 0)
DayCount(date) ==
    365 * (date[1] - 1)
        + Cardinality({ k \in 1..(date[1] - 1) : LeapYear(k) })
        + MonthsBefore(date[1], date[2]) + date[3]
LastDayCount == DayCount(<< 9999, 12, 31 >>)
\* The call has been made, the date of issue parses and the days of credit
\* are an int.
CalcDone == calc_result # NotCalled
ParsedDate == FirstFormat(Strip(fecha_emision), FormatosFecha, 1)
CalcOfInt == CalcDone /\ ParsedDate # NoDate /\ dias_credito.t = "int"
\* The result holds the due date, the days that remain, the flag and the
\* message that the contract gives for the date of issue it holds, the
\* days of credit and the day of the call.
DueDateHolds(text, dias, today) ==
    LET emision == FieldOf(text, KeyFechaEmision)
        vencimiento == FieldOf(text, KeyFechaVencimiento)
        restantes == FieldOf(text, KeyDiasRestantes)
    IN  /\ IsIsoDate(emision) /\ IsIsoDate(vencimiento)
        /\ IsIntText(restantes)
        /\ DayCount(IsoDate(vencimiento)) = DayCount(IsoDate(emision)) + dias
        /\ IntText(restantes) = DayCount(IsoDate(vencimiento)) - DayCount(today)
        /\ FieldOf(text, KeyVencida) =
               IF IntText(restantes) < 0 THEN JsonTrueText ELSE JsonFalseText
        /\ FieldOf(text, KeyMensaje) =
               JsonQuote(IF IntText(restantes) < 0
                         THEN MsgVencioA \o StrOfInt(-IntText(restantes))
                                  \o MsgVencioB
                         ELSE MsgFaltanA \o StrOfInt(IntText(restantes))
                                  \o MsgFaltanB)

\* C23 as stated: for every date of issue that parses and every int
\* dias_credito, the result holds fecha_vencimiento = fecha_emision +
\* dias_credito days and dias_restantes = fecha_vencimiento - today,
\* vencida is true exactly when dias_restantes < 0, and the message is the
\* overdue one with -dias_restantes, or the other one with dias_restantes.
C23_EveryInteger ==
    CalcOfInt =>
        /\ ~calc_result.raised
        /\ DueDateHolds(calc_result.text, dias_credito.n, hoy)
\* C23, amended: the same, for every int dias_credito with which the due
\* date is a date of the years 1 to 9999.
C23_DueDateInRange ==
    (/\ CalcOfInt
     /\ DayCount(ParsedDate) + dias_credito.n >= 1
     /\ DayCount(ParsedDate) + dias_credito.n <= LastDayCount) =>
        /\ ~calc_result.raised
        /\ DueDateHolds(calc_result.text, dias_credito.n, hoy)
\* An invoice of 1 January 2025 with 30 days of credit, asked about on 31
\* January 2025: no day remains and it is not overdue.
C23_Witness ==
    /\ fecha_emision = << "2","0","2","5","-","0","1","-","0","1" >>
    /\ dias_credito = PyInt(30)
    /\ hoy = << 2025, 1, 31 >>
    /\ CalcDone
    /\ FieldOf(calc_result.text, KeyFechaVencimiento)
           = JsonQuote(<< "2","0","2","5","-","0","1","-","3","1" >>)
    /\ FieldOf(calc_result.text, KeyDiasRestantes) = << "0" >>
    /\ FieldOf(calc_result.text, KeyVencida) = JsonFalseText

\* ---------------------------------------------------------------- C24
\* The formats of the contract, in its order: YYYY-MM-DD, DD-MM-YYYY,
\* DD/MM/YYYY, YYYY/MM/DD.
ContractFormats ==
    << << "Y","-","m","-","d" >>, << "d","-","m","-","Y" >>,
       << "d","/","m","/","Y" >>, << "Y","/","m","/","d" >> >>
\* The formats that parse the text.
Parsing(s) ==
    { i \in DOMAIN ContractFormats : Strptime(s, ContractFormats[i]) # NoDate }
\* The date of the first format of the contract that parses the text.
FirstParsing(s) ==
    Strptime(s, ContractFormats[CHOOSE i \in Parsing(s) :
                                    \A j \in Parsing(s) : i <= j])

\* C24: the date of issue of a result without error is the date that the
\* first of the formats YYYY-MM-DD, DD-MM-YYYY, DD/MM/YYYY, YYYY/MM/DD that
\* parses the trimmed text gives; a text that none of the four parses gives
\* an error result; and "03-10-2025" is 3 October 2025.
C24_FirstFormatWins ==
    CalcDone =>
        LET emision == FieldOf(calc_result.text, KeyFechaEmision)
            failed == FieldOf(calc_result.text, KeyError) # JsonNullText
        IN  /\ Parsing(Strip(fecha_emision)) = {} => failed
            /\ ~failed =>
                   /\ Parsing(Strip(fecha_emision)) # {}
                   /\ IsIsoDate(emision)
                   /\ IsoDate(emision) = FirstParsing(Strip(fecha_emision))
            /\ (fecha_emision = << "0","3","-","1","0","-","2","0","2","5" >>
                    /\ ~failed) => IsoDate(emision) = << 2025, 10, 3 >>
\* "03-10-2025" was given with 30 days of credit: the result has no error
\* and its date of issue is 2025-10-03.
C24_Witness ==
    /\ fecha_emision = << "0","3","-","1","0","-","2","0","2","5" >>
    /\ dias_credito = PyInt(30)
    /\ CalcDone
    /\ FieldOf(calc_result.text, KeyError) = JsonNullText
    /\ FieldOf(calc_result.text, KeyFechaEmision)
           = JsonQuote(<< "2","0","2","5","-","1","0","-","0","3" >>)

\* ---------------------------------------------------------------- C25
\* The date of issue does not parse, or the days of credit are no int and
\* cannot be made one.
BadArguments == ParsedDate = NoDate \/ ~IntOf(dias_credito)[1]

\* C25: calcular_vencimiento never raises, and for a date of issue that no
\* format parses, or days of credit that int() rejects, its result has the
\* error member set and the members fecha_emision, fecha_vencimiento,
\* vencida and dias_restantes null.
C25_ErrorResultAllNull ==
    CalcDone =>
        /\ ~calc_result.raised
        /\ BadArguments =>
               /\ FieldOf(calc_result.text, KeyError) # JsonNullText
               /\ FieldOf(calc_result.text, KeyFechaEmision) = JsonNullText
               /\ FieldOf(calc_result.text, KeyFechaVencimiento)
                      = JsonNullText
               /\ FieldOf(calc_result.text, KeyVencida) = JsonNullText
               /\ FieldOf(calc_result.text, KeyDiasRestantes) = JsonNullText

\* ---------------------------------------------------------------- C26
ToolDone == tool_result # NotCalled
\* The tool is one that reads or writes settlements or providers, and its
\* request was made (its argument data, if it has one, is JSON).
CrudRequested ==
    /\ ToolDone
    /\ tool_name \in PlainTools \cup DataTools
    /\ tool_name \in DataTools => JsonLoads(tool_data).t # "invalid"
\* The text is a JSON object with the member key.
IsObjectWith(text, key) ==
    /\ JsonLoads(text).t = "obj"
    /\ HasMember(JsonLoads(text).members, key)
\* The request ends in a response with a status 2xx other than 204 whose
\* body is JSON.
AnsweredWithJson ==
    /\ http.kind = "response"
    /\ http.status # 204
    /\ http.status >= 200 /\ http.status < 300
    /\ JsonLoads(http.body).t # "invalid"

\* C26: a tool for settlements or providers returns a string and never
\* raises, whatever its request does: for a response 204 a JSON object that
\* acknowledges success, for another response 2xx the JSON of the response,
\* and for any other response, a timeout, a connection error or a body that
\* is no JSON, a JSON object with a member "error".
C26_CrudToolsReturnStrings ==
    /\ (ToolDone /\ tool_name \in PlainTools \cup DataTools) =>
           ~tool_result.raised
    /\ CrudRequested =>
           IF http.kind = "response" /\ http.status = 204
           THEN /\ IsObjectWith(tool_result.text, KeySuccess)
                /\ MemberOf(JsonLoads(tool_result.text).members, KeySuccess)
                       = JsonBool(KeySuccess, TRUE)
           ELSE IF AnsweredWithJson
           THEN JsonLoads(tool_result.text) = JsonLoads(http.body)
           ELSE IsObjectWith(tool_result.text, KeyError)
\* delete_liquidacion was called and the service answered 204 without a
\* body: the result acknowledges success.
C26_Witness ==
    /\ tool_name = "delete_liquidacion"
    /\ http.kind = "response" /\ http.status = 204 /\ http.body = << >>
    /\ ToolDone
    /\ IsObjectWith(tool_result.text, KeySuccess)

\* ---------------------------------------------------------------- C27
\* The request of rag_get_invoice_data succeeds: a response 2xx whose body
\* is a JSON object with a member "answer" that is a string.
RagSucceeds ==
    /\ http.kind = "response"
    /\ http.status >= 200 /\ http.status < 300
    /\ JsonLoads(http.body).t = "obj"
    /\ HasMember(JsonLoads(http.body).members, KeyAnswer)
    /\ MemberOf(JsonLoads(http.body).members, KeyAnswer).t = "str"
\* tools_node receiving the text from the tool rag_get_invoice_data.
RagCallOf(id) == [id |-> id, name |-> RagName]

\* C27: whenever the request of rag_get_invoice_data fails (an HTTP error,
\* a timeout, a response without the member "answer", any other exception)
\* the tool raises nothing and returns a text that begins with "Error", which
\* tools_node does not store as the invoice.
C27_RagFailuresBeginWithError ==
    (ToolDone /\ tool_name = RagTool /\ ~RagSucceeds) =>
        /\ ~tool_result.raised
        /\ StartsWith(tool_result.text, ErrorPrefix)
        /\ ~StoresInvoice(RagCallOf(1), Outcome("str", tool_result.text))
\* rag_get_invoice_data was called and the service answered 200 with a body
\* that is no JSON: the text returned begins with "Error" and is not stored.
C27_Witness ==
    /\ tool_name = RagTool
    /\ http.kind = "response" /\ http.status = 200
    /\ http.body = << "<","h","t","m","l",">" >>
    /\ ToolDone
    /\ StartsWith(tool_result.text, MsgDatosFactura)
    /\ ~StoresInvoice(RagCallOf(1), Outcome("str", tool_result.text))

\* ---------------------------------------------------------------------- C28
\* decide_node has just run for t and the model's response has no tool
\* calls.
FinalDecide(t) ==
    /\ pc[t] = "decide"
    /\ modelCalls'[t] = modelCalls[t] + 1
    /\ response'[t] = "ai"
    /\ Last(messages'[t]).tool_calls = << >>

\* The graph of t has ended: the next step of t is the return of
\* ask_custom, with the content of that response; no node runs and the
\* model is not invoked in between.
EndsThere(t) ==
    pc[t] = "done" =>
        /\ pc'[t] = "idle" /\ outcome'[t] = "returned"
        /\ answer'[t] = Last(messages[t]).content

\* Every response of the model before the last message had tool calls, and
\* tools_node ran after each of them.
FirstWithoutCalls(t) ==
    LET msgs == messages[t]
    IN  /\ \A i \in 1..(Len(msgs) - 1) :
              msgs[i].type = "ai" => msgs[i].tool_calls # << >>
        /\ Last(msgs).type = "ai" /\ Last(msgs).tool_calls = << >>
        /\ Last(nodes[t]) = "decide"
        /\ Cardinality({ i \in DOMAIN nodes[t] : nodes[t][i] = "tools" })
              = modelCalls[t] - 1

AskReturned(t) == pc[t] = "idle" /\ outcome[t] = "returned"

\* C28: when every invocation of the model and of the tools returns, a call
\* of ask_custom whose graph has started reaches the end of the graph and
\* returns; the graph ends at the first decide_node whose response has no
\* tool calls, and after it neither tools_node runs nor the model is invoked.
C28_FinalResponseEndsAsk ==
    /\ [][\A t \in Callers : /\ FinalDecide(t) => pc'[t] = "done"
                             /\ EndsThere(t)]_vars
    /\ [](\A t \in Callers : pc[t] = "done" => FirstWithoutCalls(t))
    /\ \A t \in Callers : pc[t] = "decide" ~> AskReturned(t)

\* An ask has ended at its third response, after two rounds of tool calls.
C28_Witness ==
    \E t \in Callers :
        /\ pc[t] = "done"
        /\ modelCalls[t] = 3
        /\ nodes[t] = << "decide", "tools", "decide", "tools", "decide" >>

\* ---------------------------------------------------------------------- C29
InShutdown(t) == pc[t] \in { "sd_lock", "sd_session", "sd_stdio" }

\* shutdown returns to its caller.
ShutdownReturns(t) ==
    InShutdown(t) /\ pc'[t] = "idle" /\ outcome'[t] = "returned"

\* The session is released before the transport: the transport's exit is
\* awaited with no session held and that session closed.
SessionReleasedFirst(t) ==
    pc'[t] = "sd_stdio" => session' = 0 /\ session \notin openSessions'

\* A shutdown of a service that holds nothing changes nothing: it takes the
\* lock, finds no session and no transport, and returns.
NothingToRelease(t) ==
    pc[t] = "sd_lock" /\ pc'[t] # "sd_lock" /\ session = 0 /\ stdio_ctx = 0
        => /\ UNCHANGED << svcVars, envVars, graphVars >>
           /\ ShutdownReturns(t)

\* agent.ainvoke is called: the graph of t starts.
GraphStarts(t) == pc[t] # "decide" /\ pc'[t] = "decide" /\ nodes'[t] = << >>

\* C29 (as the spec states it): shutdown releases the session and then the
\* transport and leaves the service holding neither; a shutdown of a service
\* that holds nothing changes nothing; and the graph is never started with
\* the agent of a released connection: the agent that runs is bound to the
\* session the service holds, and that session is open.
C29_ShutdownThenNewAgent ==
    [][\A t \in Callers :
          /\ ShutdownReturns(t) => session' = 0 /\ stdio_ctx' = 0
          /\ SessionReleasedFirst(t)
          /\ NothingToRelease(t)
          /\ GraphStarts(t) => /\ runConn'[t] = session'
                               /\ runConn'[t] \in openSessions']_vars

\* ---------------------------------------------------------------------- C30
\* No transport and no session that initialize opened is still open.
AllReleased == openTransports = { } /\ openSessions = { }

\* C30 (as the spec states it): the service never has more than one open
\* transport, and when a shutdown returns every transport and session that
\* initialize opened, in attempts that failed part-way too, is released.
C30_ShutdownReleasesAll ==
    [][/\ Cardinality(openTransports') <= 1
       /\ \A t \in Callers : ShutdownReturns(t) => AllReleased']_vars

====
